---- MODULE Spec2Model ----
(***************************************************************************)
(* SmartGrade-AI-Plus: the grade aggregation of the grading screen         *)
(* (Grader), the peer-evaluation kiosk (StudentPeerEval), the assignment   *)
(* settings (SubjectAssignment), the rubric editor (RubricEditor), the     *)
(* results/export view (ExportView) and the App store they share.          *)
(*                                                                         *)
(* JavaScript numbers are modelled as exact rationals [n, d] with d > 0;   *)
(* d = 0 encodes the non-finite values a division by zero produces:        *)
(* [n |-> 0, d |-> 0] is NaN, [n |-> 1, d |-> 0] is Infinity and           *)
(* [n |-> -1, d |-> 0] is -Infinity.  Strings the code parses (member      *)
(* strings, assignee ids) are sequences of one-character strings.          *)
(***************************************************************************)
EXTENDS Integers, Sequences, FiniteSets, TLC

VARIABLES rubrics, currentRubricId, assignees, assessments, nextId, pending, lastOp,
          importFeedback, login, guests

vars == <<rubrics, currentRubricId, assignees, assessments, nextId, pending, lastOp,
          importFeedback, login, guests>>

\* the state of the Login screen and of the student guest sessions
authVars == <<login, guests>>

(***************************************************************************)
(* Bounds of the exploration.                                              *)
(***************************************************************************)
\* number of criterion ids crypto.randomUUID() hands out in one behaviour
MaxCriteria == 2

\* the roster holds at most MaxRoster assignees
MaxRoster == 3

(***************************************************************************)
(* Numbers.                                                                *)
(***************************************************************************)
Abs(x) == IF x < 0 THEN -x ELSE x

Sgn(x) == IF x > 0 THEN 1 ELSE IF x < 0 THEN -1 ELSE 0

RECURSIVE Gcd(_, _)
Gcd(a, b) == IF b = 0 THEN a ELSE Gcd(b, a % b)

\* the number n/d; n/0 is NaN or +-Infinity as in IEEE arithmetic
Num(n, d) ==
  IF d = 0 THEN [n |-> Sgn(n), d |-> 0]
  ELSE LET g == Gcd(Abs(n), Abs(d))
           s == IF d < 0 THEN -1 ELSE 1
       IN  [n |-> (s * n) \div g, d |-> (s * d) \div g]

I(x) == [n |-> x, d |-> 1]

NaN == [n |-> 0, d |-> 0]

IsNaN(x) == x.d = 0 /\ x.n = 0

IsFinite(x) == x.d > 0

RAdd(a, b) ==
  IF IsNaN(a) \/ IsNaN(b) THEN NaN
  ELSE IF IsFinite(a) /\ IsFinite(b) THEN Num(a.n * b.d + b.n * a.d, a.d * b.d)
  ELSE IF IsFinite(a) THEN b
  ELSE IF IsFinite(b) THEN a
  ELSE IF a.n = b.n THEN a ELSE NaN

RMul(a, b) ==
  IF IsNaN(a) \/ IsNaN(b) THEN NaN
  ELSE IF IsFinite(a) /\ IsFinite(b) THEN Num(a.n * b.n, a.d * b.d)
  ELSE Num(Sgn(a.n) * Sgn(b.n), 0)

RDiv(a, b) ==
  IF IsNaN(a) \/ IsNaN(b) THEN NaN
  ELSE IF IsFinite(a) /\ IsFinite(b) THEN Num(a.n * b.d, a.d * b.n)
  ELSE IF IsFinite(b) THEN Num(a.n * (IF b.n < 0 THEN -1 ELSE 1), 0)
  ELSE IF IsFinite(a) THEN I(0)
  ELSE NaN

\* a >= b; every comparison with NaN is false
RGe(a, b) ==
  /\ ~IsNaN(a)
  /\ ~IsNaN(b)
  /\ IF a.d = 0 THEN a.n > 0 \/ (b.d = 0 /\ b.n < 0)
     ELSE IF b.d = 0 THEN b.n < 0
     ELSE a.n * b.d >= b.n * a.d

\* Math.round of a finite number: floor(x + 1/2)
Round(x) == (2 * x.n + x.d) \div (2 * x.d)

(***************************************************************************)
(* Sequences.                                                              *)
(***************************************************************************)
RECURSIVE SumR(_)
SumR(s) == IF s = <<>> THEN I(0) ELSE RAdd(SumR(SubSeq(s, 1, Len(s) - 1)), s[Len(s)])

\* Array.prototype.findIndex, 1-based; 0 when nothing matches
FindIndex(s, P(_)) ==
  IF \E i \in DOMAIN s : P(s[i])
  THEN CHOOSE i \in DOMAIN s : P(s[i]) /\ \A j \in 1..(i - 1) : ~P(s[j])
  ELSE 0

Map(s, F(_)) == [i \in DOMAIN s |-> F(s[i])]

\* the sequence without its i-th element (splice(i, 1), filter by index)
RemoveAt(s, i) == SubSeq(s, 1, i - 1) \o SubSeq(s, i + 1, Len(s))

Range(s) == {s[i] : i \in DOMAIN s}

(***************************************************************************)
(* Strings the code parses, as sequences of characters.                    *)
(***************************************************************************)
\* String.prototype.trim
WhiteSpace == {" ", "\t", "\r", "\n"}

RECURSIVE Trim(_)
Trim(s) ==
  IF s = <<>> THEN s
  ELSE IF s[1] \in WhiteSpace THEN Trim(Tail(s))
  ELSE IF s[Len(s)] \in WhiteSpace THEN Trim(SubSeq(s, 1, Len(s) - 1))
  ELSE s

\* String.prototype.includes
Includes(s, t) ==
  \E i \in 1..(Len(s) - Len(t) + 1) : SubSeq(s, i, i + Len(t) - 1) = t

\* String.prototype.toLowerCase on the titles and labels in use
ToLowerCase(s) ==
  CASE s = "Quality" -> "quality"
    [] s = "QUALITY" -> "quality"
    [] s = "Good" -> "good"
    [] s = "GOOD" -> "good"
    [] s = "Depth" -> "depth"
    [] s = "New Criterion" -> "new criterion"
    [] s = "Excellent (10)" -> "excellent (10)"
    [] s = "EXCELLENT (10)" -> "excellent (10)"
    [] s = "Good (8)" -> "good (8)"
    [] s = "Average (6)" -> "average (6)"
    [] s = "Fair (4)" -> "fair (4)"
    [] s = "Poor (2)" -> "poor (2)"
    [] OTHER -> s

\* String.prototype.split(sep) for a one-character separator
RECURSIVE SplitOn(_, _)
SplitOn(s, sep) ==
  IF \E i \in DOMAIN s : s[i] = sep
  THEN LET k == CHOOSE i \in DOMAIN s : s[i] = sep /\ \A j \in 1..(i - 1) : s[j] # sep
       IN  <<SubSeq(s, 1, k - 1)>> \o SplitOn(SubSeq(s, k + 1, Len(s)), sep)
  ELSE <<s>>

\* Array.prototype.join(sep)
RECURSIVE Join(_, _)
Join(parts, sep) ==
  IF parts = <<>> THEN <<>>
  ELSE IF Len(parts) = 1 THEN parts[1]
  ELSE parts[1] \o sep \o Join(Tail(parts), sep)

\* text.split(/\r?\n/)
SplitLines(text) ==
  LET pieces == SplitOn(text, "\n")
  IN  [i \in DOMAIN pieces |->
         IF i < Len(pieces) /\ pieces[i] # <<>> /\ pieces[i][Len(pieces[i])] = "\r"
         THEN SubSeq(pieces[i], 1, Len(pieces[i]) - 1)
         ELSE pieces[i]]

UpperLetters ==
  <<"A", "B", "C", "D", "E", "F", "G", "H", "I", "J", "K", "L", "M",
    "N", "O", "P", "Q", "R", "S", "T", "U", "V", "W", "X", "Y", "Z">>

LowerLetters ==
  <<"a", "b", "c", "d", "e", "f", "g", "h", "i", "j", "k", "l", "m",
    "n", "o", "p", "q", "r", "s", "t", "u", "v", "w", "x", "y", "z">>

\* String.prototype.toLowerCase, character by character
LowerChars(s) ==
  [i \in DOMAIN s |->
     IF \E k \in DOMAIN UpperLetters : UpperLetters[k] = s[i]
     THEN LowerLetters[CHOOSE k \in DOMAIN UpperLetters : UpperLetters[k] = s[i]]
     ELSE s[i]]

Quotes == {"\"", "'"}

\* cleanField: s ? s.replace(/^["']|["']$/g, '').trim() : ''
CleanField(s) ==
  LET a == IF s # <<>> /\ s[1] \in Quotes THEN Tail(s) ELSE s
      b == IF a # <<>> /\ a[Len(a)] \in Quotes THEN SubSeq(a, 1, Len(a) - 1) ELSE a
  IN  Trim(b)

DecimalDigit(n) ==
  CASE n = 0 -> "0" [] n = 1 -> "1" [] n = 2 -> "2" [] n = 3 -> "3" [] n = 4 -> "4"
    [] n = 5 -> "5" [] n = 6 -> "6" [] n = 7 -> "7" [] n = 8 -> "8" [] OTHER -> "9"

\* `${n}` for a natural number
RECURSIVE Decimal(_)
Decimal(n) ==
  IF n < 10 THEN <<DecimalDigit(n)>>
  ELSE Append(Decimal(n \div 10), DecimalDigit(n % 10))

(***************************************************************************)
(* The rubric model.                                                       *)
(***************************************************************************)
INITIAL_RUBRIC ==
  [id |-> "default", subject |-> "", type |-> "individual", criteria |-> <<>>,
   passingPercentage |-> 50, assignmentWeight |-> 100, peerEvalWeight |-> 0]

\* the rubric the App hands to every view
CurrentRubric ==
  IF \E i \in DOMAIN rubrics : rubrics[i].id = currentRubricId
  THEN rubrics[FindIndex(rubrics, LAMBDA r : r.id = currentRubricId)]
  ELSE INITIAL_RUBRIC

\* level ids of criterion cid
LevelId(cid, k) == cid * 10 + k

\* the id saved with a custom score when the criterion has no level
UnknownLevel == 0

\* the criterion addCriterion creates, with the ids it draws
NewCriterion(cid) ==
  [id |-> cid, title |-> "New Criterion", weight |-> Num(1, 2),
   levels |-> << [id |-> LevelId(cid, 1), label |-> "Excellent (10)", score |-> 10],
                 [id |-> LevelId(cid, 2), label |-> "Good (8)", score |-> 8],
                 [id |-> LevelId(cid, 3), label |-> "Average (6)", score |-> 6],
                 [id |-> LevelId(cid, 4), label |-> "Fair (4)", score |-> 4],
                 [id |-> LevelId(cid, 5), label |-> "Poor (2)", score |-> 2] >>]

\* criteria lists the rubric generator returns (before ids are assigned)
GeneratedCriteria ==
  { << [title |-> "Quality", weight |-> I(2),
        levels |-> << [label |-> "Good", score |-> 4] >>],
       [title |-> "Depth", weight |-> I(1), levels |-> <<>>] >> }

\* enrichRubric: every criterion and level of a generated rubric gets a fresh id
EnrichCriteria(gen, firstId) ==
  [i \in DOMAIN gen |->
     [id |-> firstId + i - 1, title |-> gen[i].title, weight |-> gen[i].weight,
      levels |-> [k \in DOMAIN gen[i].levels |->
                    [id |-> LevelId(firstId + i - 1, k),
                     label |-> gen[i].levels[k].label,
                     score |-> gen[i].levels[k].score]]]]

RECURSIVE MaxOf(_, _)
\* Math.max(m, ...s)
MaxOf(m, s) ==
  IF s = <<>> THEN m
  ELSE MaxOf(IF s[1] > m THEN s[1] ELSE m, Tail(s))

\* Math.max(0, ...(c.levels?.map(l => l.score) || [0]))
CriterionMaxScore(c) == MaxOf(0, Map(c.levels, LAMBDA l : l.score))

\* rubricMaxRawScore: the sum of the criteria's weighted maximum scores
RubricMaxRawScore(r) ==
  SumR(Map(r.criteria, LAMBDA c : RMul(I(CriterionMaxScore(c)), c.weight)))

CriteriaIds(r) == {r.criteria[i].id : i \in DOMAIN r.criteria}

HasCriterion(r, cid) == \E i \in DOMAIN r.criteria : r.criteria[i].id = cid

\* rubric.criteria.find(c => c.id === cid); only used under HasCriterion
FindCriterion(r, cid) == r.criteria[FindIndex(r.criteria, LAMBDA c : c.id = cid)]

\* c?.weight ?? 1
WeightOf(r, cid) == IF HasCriterion(r, cid) THEN FindCriterion(r, cid).weight ELSE I(1)

\* entries.reduce((acc, e) => acc + e.score * (c?.weight ?? 1), 0)
TeacherRawScore(r, entries) ==
  SumR(Map(entries, LAMBDA e : RMul(I(e.score), WeightOf(r, e.criterionId))))

\* (rubric.type === 'group' ? rubric.peerEvalWeight : 0) || 0
EffectivePeerWeight(r) == IF r.type = "group" THEN r.peerEvalWeight ELSE 0

\* peerEvals.reduce((s, e) => s + e.score, 0) / peerEvals.length
MeanScore(peerEvals) ==
  RDiv(SumR(Map(peerEvals, LAMBDA e : I(e.score))), I(Len(peerEvals)))

(***************************************************************************)
(* Grader: the assessment the grading screen derives from the store.       *)
(***************************************************************************)
\* `${rubric.id}_${assigneeId}`
CompositeKey(rid, aid) == <<rid, aid>>

\* the assessment used when none is stored (Grader)
GraderFallback(r, aid) ==
  [rubricId |-> r.id, assigneeId |-> aid, entries |-> <<>>,
   peerEvaluations |-> <<>>, totalScore |-> I(0), feedback |-> "",
   submissionText |-> "", locked |-> FALSE]

BaseAssessment(r, store, aid) ==
  IF CompositeKey(r.id, aid) \in DOMAIN store
  THEN store[CompositeKey(r.id, aid)]
  ELSE GraderFallback(r, aid)

\* 2. entries of criteria that still exist in the rubric
ValidEntries(r, entries) == SelectSeq(entries, LAMBDA e : HasCriterion(r, e.criterionId))

\* 3. teacher raw score, summed over the valid entries
GraderTeacherRawScore(r, entries) == TeacherRawScore(r, ValidEntries(r, entries))

\* 4. the peer average of the grading screen
GraderPeerAvg(peerEvals, peerEvalWeight) ==
  IF peerEvalWeight > 0
  THEN IF Len(peerEvals) > 0 THEN MeanScore(peerEvals) ELSE I(0)
  ELSE I(100)

\* the teacher component on the other scale: as a fraction of the teacher weight
TeacherComponentAsFraction(raw, max, teacherWeight) ==
  IF RGe(max, I(0)) /\ max # I(0)
  THEN RDiv(RMul(RDiv(raw, max), I(teacherWeight)), I(100))
  ELSE I(0)

\* the teacher component without the guard on the maximum raw score
TeacherComponentUnguarded(raw, max, teacherWeight) ==
  RMul(RDiv(raw, max), I(teacherWeight))

\* rubricMaxRawScore > 0 ? (teacherRawScore / rubricMaxRawScore) * teacherWeight : 0
TeacherComponent(raw, max, teacherWeight) ==
  IF RGe(max, I(0)) /\ max # I(0) THEN RMul(RDiv(raw, max), I(teacherWeight)) ELSE I(0)

\* (peerAvg / 100) * peerEvalWeight
PeerComponent(peerAvg, peerEvalWeight) == RMul(RDiv(peerAvg, I(100)), I(peerEvalWeight))

\* 5. the composite score of the grading screen
GraderTotalScore(r, base) ==
  LET peerEvalWeight == EffectivePeerWeight(r)
  IN  RAdd(TeacherComponent(GraderTeacherRawScore(r, base.entries),
                            RubricMaxRawScore(r), 100 - peerEvalWeight),
           PeerComponent(GraderPeerAvg(base.peerEvaluations, peerEvalWeight),
                         peerEvalWeight))

\* currentAssessment (useMemo) for the selected assignee
CurrentAssessment(r, store, aid) ==
  LET base == BaseAssessment(r, store, aid)
  IN  [base EXCEPT !.entries = ValidEntries(r, base.entries),
                   !.totalScore = GraderTotalScore(r, base)]

\* isPassed: percentage >= (rubric.passingPercentage ?? 50)
IsPassed(r, store, aid) ==
  RGe(CurrentAssessment(r, store, aid).totalScore, I(r.passingPercentage))

\* the peer average saveScore recomputes
SaveScorePeerAvg(peerEvals, peerWeight) ==
  IF Len(peerEvals) > 0 THEN MeanScore(peerEvals)
  ELSE IF peerWeight > 0 THEN I(0)
  ELSE I(100)

\* the total saveScore stores with the new entries
SaveScoreTotal(r, newEntries, peerEvals) ==
  LET peerWeight == EffectivePeerWeight(r)
  IN  RAdd(TeacherComponent(TeacherRawScore(r, newEntries), RubricMaxRawScore(r),
                            100 - peerWeight),
           PeerComponent(SaveScorePeerAvg(peerEvals, peerWeight), peerWeight))

\* the peer average handleAutoGrade recomputes
AutoGradePeerAvg(peerEvals, peerWeight) ==
  IF Len(peerEvals) > 0 THEN MeanScore(peerEvals)
  ELSE (IF peerWeight > 0 THEN I(0) ELSE I(100))

\* the total handleAutoGrade stores with the new entries
AutoGradeTotal(r, newEntries, peerEvals) ==
  LET peerWeight == EffectivePeerWeight(r)
  IN  RAdd(TeacherComponent(TeacherRawScore(r, newEntries), RubricMaxRawScore(r),
                            100 - peerWeight),
           PeerComponent(AutoGradePeerAvg(peerEvals, peerWeight), peerWeight))

\* the entries saveScore writes: the criterion's old entry out, the new one last
SaveScoreEntries(entries, criterionId, levelId, score) ==
  Append(SelectSeq(entries, LAMBDA e : e.criterionId # criterionId),
         [criterionId |-> criterionId, levelId |-> levelId, score |-> score])

\* stable insertion of the pair x = <<key, value>> into the sorted sequence s
RECURSIVE InsertByKey(_, _)
InsertByKey(s, x) ==
  IF s = <<>> THEN <<x>>
  ELSE IF s[Len(s)][1] <= x[1] THEN Append(s, x)
  ELSE Append(InsertByKey(SubSeq(s, 1, Len(s) - 1), x), s[Len(s)])

RECURSIVE SortPairs(_)
SortPairs(s) ==
  IF s = <<>> THEN s
  ELSE InsertByKey(SortPairs(SubSeq(s, 1, Len(s) - 1)), s[Len(s)])

\* Array.prototype.sort with the comparator Key(a) - Key(b) (stable)
SortBy(s, Key(_)) ==
  LET sorted == SortPairs([i \in DOMAIN s |-> <<Key(s[i]), s[i]>>])
  IN  [i \in DOMAIN s |-> sorted[i][2]]

\* the levels as the grading screen leaves them: sorted by score in place
GraderLevels(c) == SortBy(c.levels, LAMBDA l : l.score)

\* closestLevel?.id || 'unknown'
ClosestLevelId(c, score) ==
  IF c.levels = <<>> THEN UnknownLevel
  ELSE SortBy(GraderLevels(c), LAMBDA l : Abs(l.score - score))[1].id

(***************************************************************************)
(* ExportView: the results table, the per-assignment export and the course *)
(* summary.                                                                *)
(***************************************************************************)
HasComma(m) == \E i \in DOMAIN m : m[i] = ","

FirstComma(m) == CHOOSE i \in DOMAIN m : m[i] = "," /\ \A j \in 1..(i - 1) : m[j] # ","

\* parseMember: "ID, Name" -> {id, name}; a string without comma has no id
ParseMember(m) ==
  IF HasComma(m)
  THEN [id |-> Trim(SubSeq(m, 1, FirstComma(m) - 1)),
        name |-> Trim(SubSeq(m, FirstComma(m) + 1, Len(m)))]
  ELSE [id |-> <<>>, name |-> Trim(m)]

\* totalWeightage, peerWeightPct, teacherMaxScore and peerMaxScore of a rubric
ExportPeerWeightPct(r) == r.peerEvalWeight

TeacherMaxScore(r) == RDiv(I(r.assignmentWeight * (100 - ExportPeerWeightPct(r))), I(100))

PeerMaxScore(r) == RDiv(I(r.assignmentWeight * ExportPeerWeightPct(r)), I(100))

\* teacherPct of an export row: no assessment counts as raw score 0
ExportTeacherPct(r, store, aid) ==
  LET key == CompositeKey(r.id, aid)
      raw == IF key \in DOMAIN store THEN TeacherRawScore(r, store[key].entries) ELSE I(0)
      max == RubricMaxRawScore(r)
  IN  IF RGe(max, I(0)) /\ max # I(0) THEN RDiv(raw, max) ELSE I(0)

\* assessment?.peerEvaluations?.filter(pe => pe.subject === memberStr) || []
MemberPeerEvals(r, store, aid, memberStr) ==
  LET key == CompositeKey(r.id, aid)
  IN  IF key \in DOMAIN store
      THEN SelectSeq(store[key].peerEvaluations, LAMBDA pe : pe.subject = memberStr)
      ELSE <<>>

\* peerAvgRaw of a member's row in the per-assignment export
ExportPeerAvgRaw(r, store, aid, memberStr) ==
  LET peerEvals == MemberPeerEvals(r, store, aid, memberStr)
  IN  IF Len(peerEvals) > 0 THEN MeanScore(peerEvals)
      ELSE (IF ExportPeerWeightPct(r) > 0 THEN I(0) ELSE I(100))

\* peerAvgRaw of a member's row in the results table
TablePeerAvgRaw(r, store, aid, memberStr) ==
  LET peerEvals == MemberPeerEvals(r, store, aid, memberStr)
  IN  IF Len(peerEvals) > 0 THEN MeanScore(peerEvals) ELSE I(0)

\* finalVal of a member's row (group mode) in the per-assignment export
ExportGroupFinalVal(r, store, aid, memberStr) ==
  RAdd(RMul(ExportTeacherPct(r, store, aid), TeacherMaxScore(r)),
       RMul(RDiv(ExportPeerAvgRaw(r, store, aid, memberStr), I(100)), PeerMaxScore(r)))

\* finalVal of a member's row (group mode) in the results table
TableGroupFinalVal(r, store, aid, memberStr) ==
  RAdd(RMul(ExportTeacherPct(r, store, aid), TeacherMaxScore(r)),
       RMul(RDiv(TablePeerAvgRaw(r, store, aid, memberStr), I(100)), PeerMaxScore(r)))

\* finalVal of an individual's row: the teacher score is the final grade
ExportIndividualFinalVal(r, store, aid) ==
  RMul(ExportTeacherPct(r, store, aid), TeacherMaxScore(r))

\* finalPct = (finalVal / totalWeightage) * 100
FinalPct(r, finalVal) == RMul(RDiv(finalVal, I(r.assignmentWeight)), I(100))

\* status: finalPct >= (rubric.passingPercentage ?? 50)
ExportPasses(r, finalVal) == RGe(FinalPct(r, finalVal), I(r.passingPercentage))

\* the rows the export and the table write for a rubric
GroupRows(r, roster) ==
  UNION {{<<roster[i].id, roster[i].members[k]>> : k \in DOMAIN roster[i].members} :
           i \in {j \in DOMAIN roster : r.type = "group" /\ roster[j].type = "group"}}

IndividualRows(r, roster) ==
  {roster[i].id : i \in {j \in DOMAIN roster : r.type # "group" /\ roster[j].type = "individual"}}

\* only the assessment keyed by the student itself is looked up
AssessmentKeyDirectOnly(r, store, roster, studentId) ==
  IF CompositeKey(r.id, studentId) \in DOMAIN store THEN CompositeKey(r.id, studentId)
  ELSE <<>>

\* getAssessmentForStudent: the key of the assessment, <<>> when there is none
AssessmentKeyForStudent(r, store, roster, studentId) ==
  LET individualKey == CompositeKey(r.id, studentId)
      IsGroupOf(a) == a.type = "group" /\
                      \E k \in DOMAIN a.members : ParseMember(a.members[k]).id = studentId
      g == FindIndex(roster, IsGroupOf)
  IN  IF individualKey \in DOMAIN store THEN individualKey
      ELSE IF g # 0 /\ CompositeKey(r.id, roster[g].id) \in DOMAIN store
           THEN CompositeKey(r.id, roster[g].id)
      ELSE <<>>

\* the peer average calculateWeightedScore uses when rPeerWeightPct > 0
SummaryPeerAvgRaw(r, assessment, studentId) ==
  IF r.type = "group" /\ studentId # <<>>
  THEN LET studentEvals == SelectSeq(assessment.peerEvaluations,
                                     LAMBDA pe : Includes(pe.subject, studentId))
       IN  IF Len(studentEvals) > 0 THEN MeanScore(studentEvals) ELSE I(0)
  ELSE I(100)

\* calculateWeightedScore(r, assessment, studentId), the assessment given by its key
CalculateWeightedScore(r, store, key, studentId) ==
  IF key = <<>> THEN I(0)
  ELSE LET assessment == store[key]
           rPeerWeightPct == r.peerEvalWeight
           rTeacherMax == RDiv(I(r.assignmentWeight * (100 - rPeerWeightPct)), I(100))
           rPeerMax == RDiv(I(r.assignmentWeight * rPeerWeightPct), I(100))
           max == RubricMaxRawScore(r)
           teacherPct == IF RGe(max, I(0)) /\ max # I(0)
                         THEN RDiv(TeacherRawScore(r, assessment.entries), max)
                         ELSE I(0)
           peerScoreVal == IF rPeerWeightPct > 0
                           THEN RMul(RDiv(SummaryPeerAvgRaw(r, assessment, studentId), I(100)),
                                     rPeerMax)
                           ELSE I(0)
       IN  RAdd(RMul(teacherPct, rTeacherMax), peerScoreVal)

\* the per-rubric value of a student's row in the course summary
SummaryScore(r, store, roster, studentId) ==
  CalculateWeightedScore(r, store, AssessmentKeyForStudent(r, store, roster, studentId),
                         studentId)

\* assignmentScores of a student's row, one per rubric
AssignmentScores(rs, store, roster, studentId) ==
  [i \in DOMAIN rs |-> SummaryScore(rs[i], store, roster, studentId)]

\* totalCourseScore += score, over the rubrics
TotalCourseScore(rs, store, roster, studentId) ==
  SumR(AssignmentScores(rs, store, roster, studentId))

\* getAllUniqueStudents: the ids of the individuals and of the members with an id
AllUniqueStudents(roster) ==
  LET individuals == {roster[i].id : i \in {j \in DOMAIN roster : roster[j].type = "individual"}}
      members == UNION {Range(roster[i].members) :
                          i \in {j \in DOMAIN roster : roster[j].type = "group"}}
  IN  individuals \cup ({ParseMember(m).id : m \in members} \ {<<>>})

(***************************************************************************)
(* The App store and the inputs of the exploration.                        *)
(***************************************************************************)
\* setAssessments(prev => ({...prev, [id]: assessment}))
StoreWith(store, key, a) ==
  [k \in DOMAIN store \cup {key} |-> IF k = key THEN a ELSE store[k]]

\* setRubrics(prev => prev.map(r => r.id === updated.id ? updated : r))
RubricsWith(rs, updated) == [i \in DOMAIN rs |-> IF rs[i].id = updated.id THEN updated ELSE rs[i]]

NoKey == <<>>

\* the last write to the assessments store: the handler, the key it wrote, the
\* criterion ids and the maximum raw score of the rubric it ran with, and whether
\* the assessment it started from had lost stale entries (for handleSubmit:
\* whether earlier evaluations of the evaluator were removed)
Op(name, key, seen, max, pruned) ==
  [op |-> name, key |-> key, seen |-> seen, max |-> max, pruned |-> pruned,
   applied |-> <<>>]

NoOp(name) == Op(name, NoKey, {}, I(0), FALSE)

\* the write of a Grader handler that ran with rubric r for assignee aid
GraderOp(name, r, store, aid) ==
  Op(name, CompositeKey(r.id, aid), CriteriaIds(r), RubricMaxRawScore(r),
     ValidEntries(r, BaseAssessment(r, store, aid).entries) #
       BaseAssessment(r, store, aid).entries)

\* member strings "S1, A" and "S10, B"
MemberA == <<"S", "1", ",", " ", "A">>

MemberB == <<"S", "1", "0", ",", " ", "B">>

GroupG1 == [id |-> <<"G", "1">>, name |-> <<"T", "e", "a", "m">>, type |-> "group",
            members |-> <<MemberA, MemberB>>]

StudentS3 == [id |-> <<"S", "3">>, name |-> <<"C">>, type |-> "individual", members |-> <<>>]

\* backup files offered to handleImportData: a class with one group, and a file
\* whose individual assignment still carries a peer-evaluation weight
ClassBackup ==
  [rubrics |-> <<[INITIAL_RUBRIC EXCEPT !.type = "group", !.peerEvalWeight = 30,
                                        !.assignmentWeight = 50, !.passingPercentage = 60]>>,
   assignees |-> <<GroupG1>>, assessments |-> <<>>, currentRubricId |-> "default"]

LegacyBackup ==
  [rubrics |-> <<[INITIAL_RUBRIC EXCEPT !.peerEvalWeight = 30]>>,
   assignees |-> <<StudentS3>>, assessments |-> <<>>, currentRubricId |-> "default"]

Backups == {ClassBackup, LegacyBackup}

\* the file {"rubrics": []}: an array of rubrics, so the format test passes;
\* assignees, assessments and currentRubricId are absent
EmptyBackup ==
  [rubrics |-> <<>>, assignees |-> <<>>, assessments |-> <<>>, currentRubricId |-> ""]

StudentS4 == [id |-> <<"S", "4">>, name |-> <<"D">>, type |-> "individual", members |-> <<>>]

\* a backup file with a graded and locked assessment of student S3 and an
\* ungraded student S4, under a rubric of two criteria
GradedBackup ==
  [rubrics |-> <<[INITIAL_RUBRIC EXCEPT !.criteria =
                  <<[NewCriterion(8) EXCEPT !.title = "Depth"], NewCriterion(9)>>]>>,
   assignees |-> <<StudentS3, StudentS4>>,
   assessments |->
     (CompositeKey("default", StudentS3.id) :>
        [GraderFallback(INITIAL_RUBRIC, StudentS3.id) EXCEPT
           !.entries = <<[criterionId |-> 9, levelId |-> LevelId(9, 3), score |-> 6]>>,
           !.totalScore = I(30), !.submissionText = "essay", !.locked = TRUE]),
   currentRubricId |-> "default"]

AssignmentWeights == {0}

PeerEvalWeights == {0, 30}

CustomScores == {10}

\* positions of the level buttons that are clicked
ClickedLevels == {2}

FeedbackTexts == {"fb"}

SubmissionTexts == {"essay"}

\* answers q1..q5 of one evaluation form (sliders 1..10, default 5)
FormAnswers == {<<5, 5, 5, 5, 5>>, <<10, 10, 10, 10, 10>>}

\* results the auto-grade service returns: one with a rating that names no
\* level of its criterion, one that rates the same criterion twice
RatesGenerated ==
  [ratings |-> << [criterionTitle |-> "quality", levelLabel |-> "GOOD"],
                  [criterionTitle |-> "Depth", levelLabel |-> "Good"] >>,
   feedback |-> "fb"]

RatesTwice ==
  [ratings |-> << [criterionTitle |-> "New Criterion", levelLabel |-> "EXCELLENT (10)"],
                  [criterionTitle |-> "new criterion", levelLabel |-> "Good (8)"] >>,
   feedback |-> ""]

AutoGradeResults == {RatesGenerated, RatesTwice}

AssigneeIds == {assignees[i].id : i \in DOMAIN assignees}

\* importFeedback of the StudentManager before any import (null), with the text
\* the last import was given
NoFeedback ==
  [text |-> <<>>, assignmentType |-> "individual", before |-> <<>>, created |-> <<>>,
   successCount |-> 0, errors |-> <<>>, done |-> FALSE]

(***************************************************************************)
(* Login: the state of the component and the two verification functions.   *)
(***************************************************************************)
\* securityToken before any code was sent
NoToken == [email |-> <<>>, code |-> <<>>]

\* the useState values of a freshly mounted Login; users is the content of
\* localStorage 'smartgrade_users_db', sending and verifying are the requests
\* in flight, session is the call of onLogin
LoginMounted(users) ==
  [step |-> "LANDING", email |-> <<>>, verificationCode |-> <<>>, username |-> <<>>,
   securityToken |-> NoToken, loginId |-> <<>>, selectedRole |-> <<>>,
   passcode |-> <<>>, error |-> "", users |-> users,
   sending |-> {}, verifying |-> {}, session |-> <<>>]

Emails == {<<"a", "@", "x", ".", "i", "o">>, <<"a", "x">>}

\* the code send-verification draws (Math.random)
ServerCodes == {<<"1", "1", "1", "1", "1", "1">>}

\* codes typed by the user
TypedCodes == {<<"1", "1", "1", "1", "1", "1">>, <<"2", "2", "2", "2", "2", "2">>, <<"1", "1">>}

Usernames == {<<"a", "n", "n">>, <<"A", "n", "n">>, <<"a", "b">>}

LoginIds == {<<" ">>, <<" ", "A", "D", "M", "I", "N">>, <<"A", "N", "N">>, <<"b", "o", "b">>}

Passcodes == {<<"1", "2", "3", "4", "5", "6">>, <<"0", "0", "0", "0", "0", "0">>}

\* the role buttons of step ROLE_SELECT
RoleButtons ==
  {[role |-> "TEACHER", label |-> "Main Teacher"],
   [role |-> "ASSESSOR", label |-> "Internal Assessor"]}

\* send-verification: the status and the signed token for a posted email
SendVerification(email, code) ==
  IF email = <<>> \/ ~Includes(email, <<"@">>)
  THEN [statusCode |-> 400, error |-> "Invalid email", token |-> NoToken]
  ELSE [statusCode |-> 200, error |-> "", token |-> [email |-> email, code |-> code]]

\* verify-code: the status for a posted {email, code, token}; jwtValid is the
\* outcome of jwt.verify (signature and the 10 minute expiry)
VerifyCode(req, jwtValid) ==
  IF req.token = NoToken \/ req.code = <<>>
  THEN [statusCode |-> 400, error |-> "Missing code or token"]
  ELSE IF ~jwtValid
  THEN [statusCode |-> 401, error |-> "Code expired or invalid"]
  ELSE IF req.token.email # req.email
  THEN [statusCode |-> 400, error |-> "Email mismatch"]
  ELSE IF req.token.code # req.code
  THEN [statusCode |-> 400, error |-> "Incorrect code"]
  ELSE [statusCode |-> 200, error |-> ""]

\* existingUsers.some(u => u.username.toLowerCase() === username.toLowerCase())
UsernameTaken(users, username) ==
  \E i \in DOMAIN users : LowerChars(users[i].username) = LowerChars(username)

\* the index of the user whose username or email is loginId, 0 when none
UserFound(users, loginId) ==
  FindIndex(users, LAMBDA u : \/ LowerChars(u.username) = LowerChars(loginId)
                              \/ LowerChars(u.email) = LowerChars(loginId))

AdminId == <<"a", "d", "m", "i", "n">>

\* requests of one kind in flight at a time
MaxInFlight == 1

\* the access code verifyPasscode compares with
AccessCode == <<"1", "2", "3", "4", "5", "6">>

(***************************************************************************)
(* Student guest sessions: tabs opened on the kiosk link of one teacher.   *)
(* guests.storage is the item of localStorage under the teacher's key.     *)
(***************************************************************************)
GuestTabs == {1, 2}

\* the rId parameter of the kiosk link
ParamRubricId == "default"

\* the values of App's useState calls in student mode
InitialAppData ==
  [rubrics |-> <<INITIAL_RUBRIC>>, assignees |-> <<>>, assessments |-> <<>>,
   currentRubricId |-> ParamRubricId]

ClosedTab ==
  [phase |-> "closed", loaded |-> <<>>, data |-> InitialAppData, currentUser |-> <<>>]

\* no guest has opened the link; the teacher's session has stored the class
NoGuests == [storage |-> ClassBackup, sessions |-> [s \in GuestTabs |-> ClosedTab]]

\* the state the load effect sets from the parsed item
LoadedData(parsed) ==
  [rubrics |-> parsed.rubrics, assignees |-> parsed.assignees,
   assessments |-> parsed.assessments,
   currentRubricId |->
     IF \E i \in DOMAIN parsed.rubrics : parsed.rubrics[i].id = ParamRubricId
     THEN ParamRubricId
     ELSE IF parsed.currentRubricId # "" THEN parsed.currentRubricId
     ELSE INITIAL_RUBRIC.id]

Init ==
  /\ rubrics = <<INITIAL_RUBRIC>>
  /\ currentRubricId = INITIAL_RUBRIC.id
  /\ assignees = <<>>
  /\ assessments = <<>>
  /\ nextId = 1
  /\ pending = <<>>
  /\ lastOp = NoOp("init")
  /\ importFeedback = NoFeedback
  /\ login = LoginMounted(<<>>)
  /\ guests = NoGuests

(***************************************************************************)
(* App.handleImportData: restore a backup file.                            *)
(***************************************************************************)
handleImportDataOf(files) ==
  \E b \in files :
    /\ rubrics' = b.rubrics
    /\ assignees' = b.assignees
    /\ assessments' = b.assessments
    /\ currentRubricId' = IF b.currentRubricId # "" THEN b.currentRubricId
                          ELSE currentRubricId
    /\ lastOp' = NoOp("handleImportData")
    /\ UNCHANGED <<nextId, pending, importFeedback>>
    /\ UNCHANGED authVars

handleImportData == handleImportDataOf(Backups)

\* the same handler, given the class backup
importClassBackup == handleImportDataOf({ClassBackup})

\* the same handler, given the file without rubrics
importEmptyBackup == handleImportDataOf({EmptyBackup})

\* the same handler, given the backup with the locked assessment
importGradedBackup == handleImportDataOf({GradedBackup})

(***************************************************************************)
(* SubjectAssignment: the settings of the current assignment.              *)
(***************************************************************************)
\* the effect on [rubric.type]: an individual assignment has no peer weight
ResetPeerWeight(r) ==
  IF r.type = "individual" /\ r.peerEvalWeight # 0
  THEN [r EXCEPT !.peerEvalWeight = 0]
  ELSE r

\* opening the view mounts the component and runs the effect
openSubjectAssignment ==
  /\ ResetPeerWeight(CurrentRubric) # CurrentRubric
  /\ rubrics' = RubricsWith(rubrics, ResetPeerWeight(CurrentRubric))
  /\ UNCHANGED <<currentRubricId, assignees, assessments, nextId, pending, lastOp, importFeedback>>
  /\ UNCHANGED authVars

\* the type radio: onUpdate({...rubric, type}), then the effect
selectType ==
  \E t \in {"individual", "group"} :
    /\ t # CurrentRubric.type
    /\ rubrics' = RubricsWith(rubrics,
                     ResetPeerWeight([ResetPeerWeight(CurrentRubric) EXCEPT !.type = t]))
    /\ UNCHANGED <<currentRubricId, assignees, assessments, nextId, pending, lastOp, importFeedback>>
    /\ UNCHANGED authVars

setAssignmentWeight ==
  \E w \in AssignmentWeights :
    /\ rubrics' = RubricsWith(rubrics,
                     [ResetPeerWeight(CurrentRubric) EXCEPT !.assignmentWeight = w])
    /\ UNCHANGED <<currentRubricId, assignees, assessments, nextId, pending, lastOp, importFeedback>>
    /\ UNCHANGED authVars

\* the peer weight input is rendered for group assignments only
setPeerEvalWeight ==
  \E w \in PeerEvalWeights :
    /\ CurrentRubric.type = "group"
    /\ rubrics' = RubricsWith(rubrics, [CurrentRubric EXCEPT !.peerEvalWeight = w])
    /\ UNCHANGED <<currentRubricId, assignees, assessments, nextId, pending, lastOp, importFeedback>>
    /\ UNCHANGED authVars

(***************************************************************************)
(* RubricEditor: the criteria of the current assignment.                   *)
(***************************************************************************)
addCriterion ==
  /\ nextId <= MaxCriteria
  /\ rubrics' = RubricsWith(rubrics,
                   [CurrentRubric EXCEPT !.criteria = Append(@, NewCriterion(nextId))])
  /\ nextId' = nextId + 1
  /\ UNCHANGED <<currentRubricId, assignees, assessments, pending, lastOp, importFeedback>>
  /\ UNCHANGED authVars

removeCriterion ==
  \E i \in DOMAIN CurrentRubric.criteria :
    /\ rubrics' = RubricsWith(rubrics, [CurrentRubric EXCEPT !.criteria = RemoveAt(@, i)])
    /\ UNCHANGED <<currentRubricId, assignees, assessments, nextId, pending, lastOp, importFeedback>>
    /\ UNCHANGED authVars

\* the generated criteria replace the rubric's criteria
handleAiGenerate ==
  \E gen \in GeneratedCriteria :
    /\ nextId + Len(gen) - 1 <= MaxCriteria
    /\ rubrics' = RubricsWith(rubrics,
                     [CurrentRubric EXCEPT !.criteria = EnrichCriteria(gen, nextId)])
    /\ nextId' = nextId + Len(gen)
    /\ UNCHANGED <<currentRubricId, assignees, assessments, pending, lastOp, importFeedback>>
    /\ UNCHANGED authVars

(***************************************************************************)
(* Grader: the handlers of the grading screen.  The selected assignee is   *)
(* any assignee of the roster; rubric and currentAssessment are those of   *)
(* the render the handler runs in.                                         *)
(***************************************************************************)
\* saveScore(criterionId, levelId, score) for the selected assignee aid
saveScore(aid, criterionId, levelId, score) ==
  LET r == CurrentRubric
      current == CurrentAssessment(r, assessments, aid)
      newEntries == SaveScoreEntries(current.entries, criterionId, levelId, score)
  IN  /\ assessments' = StoreWith(assessments, CompositeKey(r.id, aid),
                           [current EXCEPT !.entries = newEntries,
                                           !.totalScore = SaveScoreTotal(r, newEntries,
                                                             current.peerEvaluations)])
      /\ lastOp' = GraderOp("saveScore", r, assessments, aid)
      /\ UNCHANGED <<rubrics, currentRubricId, assignees, nextId, pending, importFeedback>>
      /\ UNCHANGED authVars

\* a click on a level button of a criterion
handleScore ==
  \E aid \in AssigneeIds, i \in DOMAIN CurrentRubric.criteria :
    \E k \in DOMAIN CurrentRubric.criteria[i].levels \cap ClickedLevels :
      LET c == CurrentRubric.criteria[i]
      IN  /\ ~CurrentAssessment(CurrentRubric, assessments, aid).locked
          /\ saveScore(aid, c.id, c.levels[k].id, c.levels[k].score)

\* a click on a button of the 1-10 point scale of a criterion
handleCustomScore ==
  \E aid \in AssigneeIds, i \in DOMAIN CurrentRubric.criteria, score \in CustomScores :
    LET c == CurrentRubric.criteria[i]
    IN  /\ ~CurrentAssessment(CurrentRubric, assessments, aid).locked
        /\ saveScore(aid, c.id, ClosestLevelId(c, score), score)

handleFeedbackChange ==
  \E aid \in AssigneeIds, text \in FeedbackTexts :
    LET r == CurrentRubric
        current == CurrentAssessment(r, assessments, aid)
    IN  /\ assessments' = StoreWith(assessments, CompositeKey(r.id, aid),
                             [current EXCEPT !.feedback = text])
        /\ lastOp' = GraderOp("handleFeedbackChange", r, assessments, aid)
        /\ UNCHANGED <<rubrics, currentRubricId, assignees, nextId, pending, importFeedback>>
        /\ UNCHANGED authVars

handleSubmissionChange ==
  \E aid \in AssigneeIds, text \in SubmissionTexts :
    LET r == CurrentRubric
        current == CurrentAssessment(r, assessments, aid)
    IN  /\ assessments' = StoreWith(assessments, CompositeKey(r.id, aid),
                             [current EXCEPT !.submissionText = text])
        /\ lastOp' = GraderOp("handleSubmissionChange", r, assessments, aid)
        /\ UNCHANGED <<rubrics, currentRubricId, assignees, nextId, pending, importFeedback>>
        /\ UNCHANGED authVars

\* handleAutoGrade up to its await: the request leaves with the rubric and the
\* currentAssessment of this render
handleAutoGrade ==
  \E aid \in AssigneeIds :
    LET r == CurrentRubric
        current == CurrentAssessment(r, assessments, aid)
    IN  /\ pending = <<>>
        /\ Len(r.criteria) # 0
        /\ current.submissionText # ""
        /\ pending' = <<[rubric |-> r, assessment |-> current,
                         op |-> GraderOp("autoGradeResolved", r, assessments, aid)]>>
        /\ UNCHANGED <<rubrics, currentRubricId, assignees, assessments, nextId, lastOp, importFeedback>>
        /\ UNCHANGED authVars

\* the entry of a resolving rating is pushed, no earlier entry is removed
ApplyRatingAppendOnly(r, entries, rating) ==
  LET ci == FindIndex(r.criteria,
                      LAMBDA c : ToLowerCase(c.title) = ToLowerCase(rating.criterionTitle))
  IN  IF ci = 0 THEN entries
      ELSE LET li == FindIndex(r.criteria[ci].levels,
                       LAMBDA l : ToLowerCase(l.label) = ToLowerCase(rating.levelLabel))
           IN  IF li = 0 THEN entries
               ELSE Append(entries, [criterionId |-> r.criteria[ci].id,
                                     levelId |-> r.criteria[ci].levels[li].id,
                                     score |-> r.criteria[ci].levels[li].score])

\* one rating applied to the entries (the body of result.ratings.forEach)
ApplyRating(r, entries, rating) ==
  LET titleMatches(c) == ToLowerCase(c.title) = ToLowerCase(rating.criterionTitle)
      ci == FindIndex(r.criteria, titleMatches)
  IN  IF ci = 0 THEN entries
      ELSE LET criterion == r.criteria[ci]
               labelMatches(l) == ToLowerCase(l.label) = ToLowerCase(rating.levelLabel)
               li == FindIndex(criterion.levels, labelMatches)
           IN  IF li = 0 THEN entries
               ELSE LET level == criterion.levels[li]
                        existingIdx == FindIndex(entries,
                                         LAMBDA e : e.criterionId = criterion.id)
                        spliced == IF existingIdx > 0 THEN RemoveAt(entries, existingIdx)
                                   ELSE entries
                    IN  Append(spliced, [criterionId |-> criterion.id,
                                         levelId |-> level.id, score |-> level.score])

RECURSIVE ApplyRatings(_, _, _)
ApplyRatings(r, entries, ratings) ==
  IF ratings = <<>> THEN entries
  ELSE ApplyRatings(r, ApplyRating(r, entries, ratings[1]), Tail(ratings))

\* handleAutoGrade after its await: the result is applied to the snapshot
autoGradeResolvedOf(results) ==
  \E result \in results :
    /\ pending # <<>>
    /\ LET req == pending[1]
           newEntries == ApplyRatings(req.rubric, req.assessment.entries, result.ratings)
       IN  /\ assessments' = StoreWith(assessments, req.op.key,
                                [req.assessment EXCEPT
                                   !.entries = newEntries,
                                   !.totalScore = AutoGradeTotal(req.rubric, newEntries,
                                                     req.assessment.peerEvaluations),
                                   !.feedback = IF result.feedback # "" THEN result.feedback
                                                ELSE @])
           /\ lastOp' = [req.op EXCEPT !.applied = result.ratings]
    /\ pending' = <<>>
    /\ UNCHANGED <<rubrics, currentRubricId, assignees, nextId, importFeedback>>
    /\ UNCHANGED authVars

autoGradeResolved == autoGradeResolvedOf(AutoGradeResults)

\* the same continuation, given the result that rates the generated criteria
autoGradeGenerated == autoGradeResolvedOf({RatesGenerated})

\* the service call throws: "Failed to auto-grade.", nothing is saved
autoGradeRejected ==
  /\ pending # <<>>
  /\ pending' = <<>>
  /\ UNCHANGED <<rubrics, currentRubricId, assignees, assessments, nextId, lastOp, importFeedback>>
  /\ UNCHANGED authVars

(***************************************************************************)
(* StudentPeerEval: a group member submits the evaluations of the          *)
(* teammates.                                                              *)
(***************************************************************************)
\* Math.round(((q1 + q2 + q3 + q4 + q5) / 5) * 10)
\* the rounded mean of the five answers, not scaled to 0-100
calculateFinalScoreUnscaled(form) ==
  Round(RDiv(I(form[1] + form[2] + form[3] + form[4] + form[5]), I(5)))

calculateFinalScore(form) ==
  Round(RMul(RDiv(I(form[1] + form[2] + form[3] + form[4] + form[5]), I(5)), I(10)))

\* the assessment used when none is stored (StudentPeerEval)
PeerEvalFallback(r, gid) ==
  [rubricId |-> r.id, assigneeId |-> gid, entries |-> <<>>,
   peerEvaluations |-> <<>>, totalScore |-> I(0), feedback |-> "",
   submissionText |-> "", locked |-> FALSE]

\* the keys of evalForms in insertion order: the members other than the user
RECURSIVE Teammates(_, _)
Teammates(members, name) ==
  IF members = <<>> THEN <<>>
  ELSE LET rest == Teammates(SubSeq(members, 1, Len(members) - 1), name)
           m == members[Len(members)]
       IN  IF m = name \/ m \in Range(rest) THEN rest ELSE Append(rest, m)

\* all evaluations are kept: nothing of the evaluator is removed first
KeepEvaluations(peerEvals, currentUser) == peerEvals

\* newEvaluations.filter(e => e.evaluator !== currentUser)
CleanedEvaluations(peerEvals, currentUser) ==
  SelectSeq(peerEvals, LAMBDA e : e.evaluator # currentUser)

handleSubmit ==
  \E g \in DOMAIN assignees :
    /\ assignees[g].type = "group"
    /\ \E u \in DOMAIN assignees[g].members :
         LET r == CurrentRubric
             currentUser == assignees[g].members[u]
             subjects == Teammates(assignees[g].members, currentUser)
             compositeKey == CompositeKey(r.id, assignees[g].id)
             existingAssessment == IF compositeKey \in DOMAIN assessments
                                   THEN assessments[compositeKey]
                                   ELSE PeerEvalFallback(r, assignees[g].id)
             cleanedEvaluations == CleanedEvaluations(existingAssessment.peerEvaluations,
                                                      currentUser)
         IN  \E evalForms \in [DOMAIN subjects -> FormAnswers] :
               /\ assessments' = StoreWith(assessments, compositeKey,
                    [existingAssessment EXCEPT !.peerEvaluations =
                       cleanedEvaluations \o
                       [i \in DOMAIN subjects |->
                          [evaluator |-> currentUser, subject |-> subjects[i],
                           score |-> calculateFinalScore(evalForms[i])]]])
               /\ lastOp' = Op("handleSubmit", compositeKey, {}, I(0),
                               cleanedEvaluations # existingAssessment.peerEvaluations)
    /\ UNCHANGED <<rubrics, currentRubricId, assignees, nextId, pending, importFeedback>>
    /\ UNCHANGED authVars

(***************************************************************************)
(* StudentManager: bulk import (processAndAdd) and the roster operations.  *)
(***************************************************************************)
\* crypto.randomUUID() for the n-th generated id, as assignee id
Uuid(n) == <<"#">> \o Decimal(n)

\* generateUniqueId: baseId, or baseId-k for the first k = 1, 2, ... not in use
RECURSIVE UniqueFrom(_, _, _)
UniqueFrom(baseId, usedIds, counter) ==
  IF (baseId \o <<"-">> \o Decimal(counter)) \in usedIds
  THEN UniqueFrom(baseId, usedIds, counter + 1)
  ELSE baseId \o <<"-">> \o Decimal(counter)

\* the first candidate baseId-1 is taken without looking further
generateUniqueIdFirstSuffix(baseId, usedIds) ==
  IF baseId \in usedIds THEN baseId \o <<"-">> \o Decimal(1) ELSE baseId

generateUniqueId(baseId, usedIds) ==
  IF baseId \in usedIds THEN UniqueFrom(baseId, usedIds, 1) ELSE baseId

\* lines = text.split(/\r?\n/).filter(l => l.trim())
ImportLines(text) == SelectSeq(SplitLines(text), LAMBDA l : Trim(l) # <<>>)

Word(w) ==
  CASE w = "id" -> <<"i", "d">>
    [] w = "name" -> <<"n", "a", "m", "e">>
    [] w = "group" -> <<"g", "r", "o", "u", "p">>
    [] w = "group id" -> <<"g", "r", "o", "u", "p", " ", "i", "d">>
    [] w = "group_id" -> <<"g", "r", "o", "u", "p", "_", "i", "d">>
    [] w = "gid" -> <<"g", "i", "d">>
    [] w = "student id" -> <<"s", "t", "u", "d", "e", "n", "t", " ", "i", "d">>
    [] w = "member id" -> <<"m", "e", "m", "b", "e", "r", " ", "i", "d">>
    [] w = "student name" -> <<"s", "t", "u", "d", "e", "n", "t", " ", "n", "a", "m", "e">>
    [] w = "member name" -> <<"m", "e", "m", "b", "e", "r", " ", "n", "a", "m", "e">>
    [] OTHER -> <<>>

\* hasHeader: the first line mentions id, name or group
MentionsHeaderWord(firstLine) ==
  Includes(firstLine, Word("id")) \/ Includes(firstLine, Word("name"))
    \/ Includes(firstLine, Word("group"))

HasHeader(lines) == MentionsHeaderWord(LowerChars(lines[1]))

\* a column index found by findIndex, or the fallback position
OrColumn(k, fallback) == IF k = 0 THEN fallback ELSE k

DefaultColMap ==
  [id |-> 1, name |-> 2, groupId |-> 1, groupName |-> 2, memberId |-> 3, memberName |-> 4]

\* the column map read from the header tokens
HeaderColMap(headers, assignmentType) ==
  IF assignmentType = "individual"
  THEN [DefaultColMap EXCEPT
          !.id = OrColumn(FindIndex(headers, LAMBDA h : Includes(h, Word("id"))
                                                       /\ ~Includes(h, Word("group"))), 1),
          !.name = OrColumn(FindIndex(headers, LAMBDA h : Includes(h, Word("name"))
                                                         /\ ~Includes(h, Word("group"))), 2)]
  ELSE [DefaultColMap EXCEPT
          !.groupId = FindIndex(headers, LAMBDA h :
                        h \in {Word("group id"), Word("group_id"), Word("gid")}),
          !.groupName = OrColumn(FindIndex(headers, LAMBDA h :
                          Includes(h, Word("group")) /\ Includes(h, Word("name"))), 1),
          !.memberId = FindIndex(headers, LAMBDA h :
                         Includes(h, Word("student id")) \/ Includes(h, Word("member id"))),
          !.memberName = OrColumn(FindIndex(headers, LAMBDA h :
                           Includes(h, Word("student name"))
                             \/ Includes(h, Word("member name"))), 2)]

\* colMap, 1-based; 0 stands for the index -1 of a column that was not found
ColMap(lines, assignmentType) ==
  IF ~HasHeader(lines) THEN DefaultColMap
  ELSE HeaderColMap(Map(SplitOn(lines[1], ","), LAMBDA h : LowerChars(CleanField(h))),
                    assignmentType)

\* cols[k] || ''
Col(cols, k) == IF k \in DOMAIN cols THEN cols[k] ELSE <<>>

\* an entry of errors: `Line ${line}: ...`
ImportError(line, kind, id) == [line |-> line, kind |-> kind, id |-> id]

\* a row with id and name resolved: the id made unique, the warning, the push
IndividualPush(id1, id2, generated, name, line, acc) ==
  [acc EXCEPT
     !.uuid = IF generated THEN @ + 1 ELSE @,
     !.errors = IF id1 \in acc.usedIds
                THEN Append(@, ImportError(line, "Duplicate ID", id2)) ELSE @,
     !.usedIds = @ \cup {id2},
     !.created = Append(@, [id |-> id2, name |-> name, type |-> "individual",
                            members |-> <<>>])]

\* if (!id) id = crypto.randomUUID(); if (usedIds.has(id)) id = generateUniqueId(...)
IndividualAdd(id1, generated, name, line, acc) ==
  IndividualPush(id1, generateUniqueId(id1, acc.usedIds), generated, name, line, acc)

\* if (!name) the row is skipped with an error
IndividualFields(id0, name, line, acc) ==
  IF name = <<>>
  THEN [acc EXCEPT !.errors = Append(@, ImportError(line, "Missing Name", <<>>))]
  ELSE IndividualAdd(IF id0 = <<>> THEN Uuid(acc.uuid) ELSE id0, id0 = <<>>, name, line, acc)

\* id and name by column map; a single column without id is the name
IndividualCols(cols, line, colMap, acc) ==
  IndividualFields(Col(cols, colMap.id),
                   IF Len(cols) = 1 /\ Col(cols, colMap.id) = <<>> THEN cols[1]
                   ELSE Col(cols, colMap.name),
                   line, acc)

\* one CSV row in individual mode; line is the number the messages give
IndividualRow(text, line, colMap, acc) ==
  IndividualCols(Map(SplitOn(text, ","), CleanField), line, colMap, acc)

\* newAssignees.push of a custom-format group; a missing id is generated
CustomGroupPush(gId, gName, finalMembers, acc) ==
  [acc EXCEPT
     !.uuid = IF gId = <<>> THEN @ + 1 ELSE @,
     !.created = Append(@, [id |-> IF gId = <<>> THEN Uuid(acc.uuid) ELSE gId,
                            name |-> gName, type |-> "group", members |-> finalMembers])]

\* the members: split on ";", or on "," when there is no ";"
CustomMembers(membersPart) ==
  IF membersPart # <<>> /\ ~Includes(membersPart, <<";">>) /\ HasComma(membersPart)
  THEN Map(SplitOn(membersPart, ","), CleanField)
  ELSE IF membersPart # <<>>
  THEN SelectSeq(Map(SplitOn(membersPart, ";"), CleanField), LAMBDA m : m # <<>>)
  ELSE <<>>

\* the group part "ID, Name" or "Name"
CustomGroupPart(groupPart, membersPart, acc) ==
  IF HasComma(groupPart)
  THEN CustomGroupPush(CleanField(SplitOn(groupPart, ",")[1]),
                       CleanField(Join(Tail(SplitOn(groupPart, ",")), <<",">>)),
                       CustomMembers(membersPart), acc)
  ELSE CustomGroupPush(<<>>, groupPart, CustomMembers(membersPart), acc)

\* a line "Group: Member; Member" in group mode
CustomGroupLine(text, acc) ==
  CustomGroupPart(CleanField(SplitOn(text, ":")[1]), SplitOn(text, ":")[2], acc)

\* pendingGroups with the member added to the group of the key
GroupAddMember(groups, groupKey, memberStr) ==
  [k \in DOMAIN groups |->
     IF groups[k].key = groupKey /\ memberStr # <<>>
     THEN [groups[k] EXCEPT !.members = Append(@, memberStr)]
     ELSE groups[k]]

\* pendingGroups.set(groupKey, ...) for a new key, then the member
GroupAggregate(groupKey, gId, gName, memberStr, acc) ==
  IF \E k \in DOMAIN acc.pendingGroups : acc.pendingGroups[k].key = groupKey
  THEN [acc EXCEPT !.pendingGroups = GroupAddMember(@, groupKey, memberStr)]
  ELSE [acc EXCEPT
          !.uuid = IF gId = <<>> THEN @ + 1 ELSE @,
          !.pendingGroups =
             GroupAddMember(Append(@, [key |-> groupKey,
                                       id |-> IF gId = <<>> THEN Uuid(acc.uuid) ELSE gId,
                                       name |-> gName, members |-> <<>>]),
                            groupKey, memberStr)]

\* a row with its fields resolved: skipped without group name, else aggregated
GroupFields(gName, gId, mName, mId, line, acc) ==
  IF gName = <<>>
  THEN [acc EXCEPT !.errors = Append(@, ImportError(line, "Missing Group Name", <<>>))]
  ELSE GroupAggregate(IF gId # <<>> THEN gId ELSE gName, gId, gName,
                      IF mName # <<>> /\ mId # <<>> THEN mId \o <<",", " ">> \o mName
                      ELSE mName,
                      acc)

\* the fields by column map; headerless rows are "Group, Member"
GroupCols(cols, line, colMap, hasHeader, acc) ==
  IF ~hasHeader /\ Len(cols) >= 2
  THEN GroupFields(cols[1], Col(cols, colMap.groupId), cols[2], Col(cols, colMap.memberId),
                   line, acc)
  ELSE GroupFields(Col(cols, colMap.groupName), Col(cols, colMap.groupId),
                   Col(cols, colMap.memberName), Col(cols, colMap.memberId), line, acc)

\* one row of a flat group CSV, aggregated into pendingGroups
GroupRow(text, line, colMap, hasHeader, acc) ==
  GroupCols(Map(SplitOn(text, ","), CleanField), line, colMap, hasHeader, acc)

\* the loop over lines[i], i = startIndex .. lines.length - 1
RECURSIVE ProcessLines(_, _, _, _, _, _)
ProcessLines(lines, i, assignmentType, colMap, hasHeader, acc) ==
  IF i > Len(lines) THEN acc
  ELSE ProcessLines(lines, i + 1, assignmentType, colMap, hasHeader,
         IF assignmentType = "group" /\ Includes(lines[i], <<":">>)
         THEN CustomGroupLine(lines[i], acc)
         ELSE IF assignmentType = "individual"
         THEN IndividualRow(lines[i], i, colMap, acc)
         ELSE GroupRow(lines[i], i, colMap, hasHeader, acc))

\* Finalize aggregated groups: the pending groups follow the other assignees
FinalizeGroups(acc) ==
  [acc EXCEPT !.created =
     @ \o [k \in DOMAIN acc.pendingGroups |->
             [id |-> acc.pendingGroups[k].id, name |-> acc.pendingGroups[k].name,
              type |-> "group", members |-> acc.pendingGroups[k].members]]]

\* the accumulators before the first line
StartOfImport(roster, uuid) ==
  [usedIds |-> {roster[i].id : i \in DOMAIN roster}, created |-> <<>>,
   errors |-> <<>>, pendingGroups |-> <<>>, uuid |-> uuid]

\* processAndAdd on the non-blank lines
ProcessNonBlank(lines, hasHeader, assignmentType, start) ==
  IF lines = <<>>
  THEN [start EXCEPT !.errors = <<ImportError(0, "File appears to be empty.", <<>>)>>]
  ELSE FinalizeGroups(ProcessLines(lines, IF hasHeader THEN 2 ELSE 1, assignmentType,
                                   ColMap(lines, assignmentType), hasHeader, start))

\* processAndAdd(text) for a roster: the created assignees, the errors and the
\* number of generated ids used
ProcessAndAdd(text, roster, assignmentType, uuid) ==
  ProcessNonBlank(ImportLines(text), ImportLines(text) # <<>> /\ HasHeader(ImportLines(text)),
                  assignmentType, StartOfImport(roster, uuid))

\* texts pasted into the import box of an individual assignment
\* "S1, Ann" and "S1, Bob"
TwoRowsSameId ==
  <<"S", "1", ",", " ", "A", "n", "n", "\n", "S", "1", ",", " ", "B", "o", "b">>

\* "S1, Ann", a blank line, "S2" (no name) and "S3, Cy"
BlankLineThenBadRow ==
  <<"S", "1", ",", " ", "A", "n", "n", "\n", "\n", "S", "2", "\n", "S", "3", ",", " ", "C", "y">>

\* the single row "S2", which has no name
OnlyBadRow ==
  <<"S", "2">>

IndividualTexts == {TwoRowsSameId, BlankLineThenBadRow, OnlyBadRow}

\* texts pasted into the import box of a group assignment
\* the custom format with a group id: "S1, Team: A; B"
CustomLineWithId ==
  <<"S", "1", ",", " ", "T", "e", "a", "m", ":", " ", "A", ";", " ", "B">>

\* headerless flat rows: "Team, Ann", a blank line and ", Cy" (no group name)
FlatRowsBlankAndBad ==
  <<"T", "e", "a", "m", ",", " ", "A", "n", "n", "\n", "\n", ",", " ", "C", "y">>

\* a flat CSV with a header and a group id column
FlatRowsWithGid ==
  <<"g", "i", "d", ",", " ", "g", "r", "o", "u", "p", " ", "n", "a", "m", "e", ",",
    " ", "m", "e", "m", "b", "e", "r", " ", "n", "a", "m", "e", "\n", "S", "1", ",",
    " ", "T", "e", "a", "m", ",", " ", "A", "n", "n", "\n", "S", "1", ",", " ", "T",
    "e", "a", "m", ",", " ", "B", "o", "b">>

\* headerless flat rows of a group whose name has the word "Group":
\* "Group A, Ann" and "Group A, Bob"
FlatRowsGroupA ==
  <<"G", "r", "o", "u", "p", " ", "A", ",", " ", "A", "n", "n", "\n", "G", "r", "o",
    "u", "p", " ", "A", ",", " ", "B", "o", "b">>

GroupTexts == {CustomLineWithId, FlatRowsBlankAndBad, FlatRowsWithGid, FlatRowsGroupA}

ImportTexts(assignmentType) ==
  IF assignmentType = "individual" THEN IndividualTexts ELSE GroupTexts

\* only the created assignees are kept
RosterReplaced(roster, newAssignees) == newAssignees

\* if (newAssignees.length > 0) setAssignees([...assignees, ...newAssignees])
RosterAfterImport(roster, newAssignees) ==
  IF Len(newAssignees) > 0 THEN roster \o newAssignees ELSE roster

\* processAndAdd(inputText); importFeedback also keeps the text, the assignment
\* type, the roster before the import and the assignees created
processAndAddOf(texts) ==
  \E text \in texts \cap ImportTexts(CurrentRubric.type) :
    LET res == ProcessAndAdd(text, assignees, CurrentRubric.type, nextId)
    IN  /\ Len(assignees) + Len(res.created) <= MaxRoster
        /\ res.uuid <= MaxRoster + 1
        /\ assignees' = RosterAfterImport(assignees, res.created)
        /\ nextId' = res.uuid
        /\ importFeedback' = [text |-> text, assignmentType |-> CurrentRubric.type,
                              before |-> assignees, created |-> res.created,
                              successCount |-> Len(res.created), errors |-> res.errors,
                              done |-> TRUE]
        /\ UNCHANGED <<rubrics, currentRubricId, assessments, pending, lastOp>>
        /\ UNCHANGED authVars

processAndAdd == processAndAddOf(IndividualTexts \cup GroupTexts)

\* the same handler, given a text whose rows carry ids
importRowsWithIds == processAndAddOf({TwoRowsSameId, CustomLineWithId})

StudentIds == {<<"S", "1">>, <<>>}

StudentNames == {<<"A", "n", "n">>, <<"L", "e", "e", ",", " ", "B", "o">>}

\* saveStudent: the add-student dialog with id and name typed in
saveStudent ==
  \E id \in StudentIds, name \in StudentNames :
    LET finalId == IF Trim(id) = <<>> THEN Uuid(nextId) ELSE Trim(id)
    IN  /\ Trim(name) # <<>>
        /\ Len(assignees) < MaxRoster
        /\ nextId <= MaxRoster
        /\ ~\E i \in DOMAIN assignees : assignees[i].id = finalId
        /\ assignees' = Append(assignees, [id |-> finalId, name |-> Trim(name),
                                           type |-> "individual", members |-> <<>>])
        /\ nextId' = IF Trim(id) = <<>> THEN nextId + 1 ELSE nextId
        /\ UNCHANGED <<rubrics, currentRubricId, assessments, pending, lastOp,
                       importFeedback>>
        /\ UNCHANGED authVars

\* the member rows typed into the group dialog
ModalMembers ==
  { << [id |-> <<"S", "1">>, name |-> <<"A">>], [id |-> <<>>, name |-> <<>>] >> }

GroupNames == {<<"T", "e", "a", "m">>}

\* validMembers: rows with a name, as "id, name" or "name"
ValidMembers(members) ==
  Map(SelectSeq(members, LAMBDA m : Trim(m.name) # <<>>),
      LAMBDA m : IF Trim(m.id) # <<>> THEN Trim(m.id) \o <<",", " ">> \o Trim(m.name)
                 ELSE Trim(m.name))

\* saveGroupModal in create mode: a new group with a generated id
createGroup ==
  \E groupName \in GroupNames, members \in ModalMembers :
    /\ Trim(groupName) # <<>>
    /\ Len(assignees) < MaxRoster
    /\ nextId <= MaxRoster
    /\ assignees' = Append(assignees, [id |-> Uuid(nextId), name |-> Trim(groupName),
                                       type |-> "group", members |-> ValidMembers(members)])
    /\ nextId' = nextId + 1
    /\ UNCHANGED <<rubrics, currentRubricId, assessments, pending, lastOp, importFeedback>>
    /\ UNCHANGED authVars

\* saveGroupModal in edit mode: name and members of the target group replaced
editGroup ==
  \E g \in DOMAIN assignees, groupName \in GroupNames, members \in ModalMembers :
    /\ assignees[g].type = "group"
    /\ Trim(groupName) # <<>>
    /\ assignees' = [k \in DOMAIN assignees |->
                       IF assignees[k].id = assignees[g].id
                       THEN [assignees[k] EXCEPT !.name = Trim(groupName),
                                                 !.members = ValidMembers(members)]
                       ELSE assignees[k]]
    /\ UNCHANGED <<rubrics, currentRubricId, assessments, nextId, pending, lastOp,
                   importFeedback>>
    /\ UNCHANGED authVars

\* removeAssignee(id), confirmed: the assignees with that id leave the roster
removeAssignee ==
  \E i \in DOMAIN assignees :
    /\ assignees' = SelectSeq(assignees, LAMBDA a : a.id # assignees[i].id)
    /\ UNCHANGED <<rubrics, currentRubricId, assessments, nextId, pending, lastOp,
                   importFeedback>>
    /\ UNCHANGED authVars

\* the members of the first assignee with the id (assignees.find)
MembersOf(roster, id) == roster[FindIndex(roster, LAMBDA a : a.id = id)].members

\* removeMemberFromGroup(groupId, memberIndex): the assignees with that id
\* receive the members of the first of them, less the one removed
removeMemberFromGroup ==
  \E i \in DOMAIN assignees :
    \E memberIndex \in DOMAIN MembersOf(assignees, assignees[i].id) :
      /\ assignees' = [k \in DOMAIN assignees |->
                         IF assignees[k].id = assignees[i].id
                         THEN [assignees[k] EXCEPT !.members =
                                 RemoveAt(MembersOf(assignees, assignees[i].id), memberIndex)]
                         ELSE assignees[k]]
      /\ UNCHANGED <<rubrics, currentRubricId, assessments, nextId, pending, lastOp,
                     importFeedback>>
      /\ UNCHANGED authVars

(***************************************************************************)
(* App: creating, selecting and deleting assignments.                      *)
(***************************************************************************)
\* crypto.randomUUID() for the n-th generated id
RubricUuid(n) ==
  CASE n = 1 -> "uuid-1" [] n = 2 -> "uuid-2" [] n = 3 -> "uuid-3"
    [] n = 4 -> "uuid-4" [] OTHER -> "uuid-5"

\* r.subject && r.subject.trim() ? r.subject.trim().toUpperCase() : 'NO SUBJECT'
SubjectKey(r) ==
  CASE r.subject = "" -> "NO SUBJECT"
    [] r.subject = " " -> "NO SUBJECT"
    [] r.subject = "cs101" -> "CS101"
    [] r.subject = "CS101 " -> "CS101"
    [] OTHER -> r.subject

Subjects == {"cs101"}

\* the subject input of the assignment settings
setSubject ==
  \E t \in Subjects :
    /\ t # CurrentRubric.subject
    /\ rubrics' = RubricsWith(rubrics, [ResetPeerWeight(CurrentRubric) EXCEPT !.subject = t])
    /\ UNCHANGED <<currentRubricId, assignees, assessments, nextId, pending, lastOp,
                   importFeedback>>
    /\ UNCHANGED authVars

handleCreateRubric ==
  /\ nextId <= MaxCriteria
  /\ rubrics' = Append(rubrics, [INITIAL_RUBRIC EXCEPT !.id = RubricUuid(nextId),
                                                       !.subject = CurrentRubric.subject,
                                                       !.type = "individual"])
  /\ currentRubricId' = RubricUuid(nextId)
  /\ nextId' = nextId + 1
  /\ UNCHANGED <<assignees, assessments, pending, lastOp, importFeedback>>
  /\ UNCHANGED authVars

\* the rubrics after the settings view shows the rubric id instead of one of type
\* oldType: the effect on [rubric.type] runs when the type shown changes
AfterSwitch(rs, oldType, id) ==
  LET shown == rs[FindIndex(rs, LAMBDA r : r.id = id)]
  IN  IF shown.type # oldType THEN RubricsWith(rs, ResetPeerWeight(shown)) ELSE rs

\* the assignment selector: setCurrentRubricId(id)
selectRubric ==
  \E i \in DOMAIN rubrics :
    /\ rubrics[i].id # currentRubricId
    /\ currentRubricId' = rubrics[i].id
    /\ rubrics' = AfterSwitch(rubrics, CurrentRubric.type, rubrics[i].id)
    /\ UNCHANGED <<assignees, assessments, nextId, pending, lastOp, importFeedback>>
    /\ UNCHANGED authVars

\* handleDeleteRubric(id), the confirmation accepted
handleDeleteRubric ==
  \E i \in DOMAIN rubrics :
    LET id == rubrics[i].id
        newRubrics == SelectSeq(rubrics, LAMBDA r : r.id # id)
    IN  /\ Len(rubrics) > 1
        /\ currentRubricId' = IF currentRubricId = id THEN newRubrics[1].id
                              ELSE currentRubricId
        /\ rubrics' = AfterSwitch(newRubrics, CurrentRubric.type, currentRubricId')
        /\ UNCHANGED <<assignees, assessments, nextId, pending, lastOp, importFeedback>>
        /\ UNCHANGED authVars

\* handleDeleteSubject(subjectKey), the confirmation accepted
handleDeleteSubject ==
  \E subjectKey \in {SubjectKey(rubrics[i]) : i \in DOMAIN rubrics} :
    LET rubricsInSubject == SelectSeq(rubrics, LAMBDA r : SubjectKey(r) = subjectKey)
        idsToDelete == {r.id : r \in Range(rubricsInSubject)}
        newRubrics == SelectSeq(rubrics, LAMBDA r : r.id \notin idsToDelete)
    IN  /\ Len(rubrics) # Len(rubricsInSubject)
        /\ currentRubricId' = IF currentRubricId \in idsToDelete /\ Len(newRubrics) > 0
                              THEN newRubrics[1].id
                              ELSE currentRubricId
        /\ rubrics' = AfterSwitch(newRubrics, CurrentRubric.type, currentRubricId')
        /\ UNCHANGED <<assignees, assessments, nextId, pending, lastOp, importFeedback>>
        /\ UNCHANGED authVars

(***************************************************************************)
(* Login: the handlers.  A handler that reads an input field runs with the *)
(* value typed into it.  The handlers of Login leave the data of the app   *)
(* as it is; onLogin is recorded in login.session.                         *)
(***************************************************************************)
appVars == <<rubrics, currentRubricId, assignees, assessments, nextId, pending, importFeedback>>

\* the buttons of step LANDING
landingButton ==
  \E to \in {"LOGIN_ID", "REGISTER_EMAIL"} :
    /\ login.session = <<>> /\ login.step = "LANDING"
    /\ login' = [login EXCEPT !.step = to]
    /\ lastOp' = NoOp("landingButton")
    /\ UNCHANGED <<appVars, guests>>

\* <BackButton to=...> of the steps that show one
BackTarget(step) ==
  CASE step = "REGISTER_EMAIL" -> "LANDING"
    [] step = "REGISTER_VERIFY" -> "REGISTER_EMAIL"
    [] step = "LOGIN_ID" -> "LANDING"
    [] step = "PASSCODE" -> "ROLE_SELECT"
    [] OTHER -> step

backButton ==
  /\ login.session = <<>>
  /\ login.step \in {"REGISTER_EMAIL", "REGISTER_VERIFY", "LOGIN_ID", "PASSCODE"}
  /\ login' = [login EXCEPT !.error = "", !.step = BackTarget(login.step)]
  /\ lastOp' = NoOp("backButton")
  /\ UNCHANGED <<appVars, guests>>

\* "Sign Out" of step ROLE_SELECT
roleSelectSignOut ==
  /\ login.session = <<>> /\ login.step = "ROLE_SELECT"
  /\ login' = [login EXCEPT !.step = "LANDING"]
  /\ lastOp' = NoOp("roleSelectSignOut")
  /\ UNCHANGED <<appVars, guests>>

\* handleSendCode up to its await
handleSendCode ==
  \E email \in Emails :
    /\ login.session = <<>> /\ login.step = "REGISTER_EMAIL"
    /\ Cardinality(login.sending) < MaxInFlight
    /\ login' = IF ~Includes(email, <<"@">>) \/ Len(email) < 5
                THEN [login EXCEPT !.email = email,
                                   !.error = "Please enter a valid email address."]
                ELSE [login EXCEPT !.email = email, !.error = "",
                                   !.sending = @ \cup {email}]
    /\ lastOp' = NoOp("handleSendCode")
    /\ UNCHANGED <<appVars, guests>>

\* handleSendCode after its await: the response of send-verification, or a
\* failed connection
sendCodeResolved ==
  \E email \in login.sending, code \in ServerCodes, connected \in BOOLEAN :
    LET res == SendVerification(email, code)
    IN  /\ login.session = <<>>
        /\ login' = IF connected /\ res.statusCode = 200
                    THEN [login EXCEPT !.securityToken = res.token,
                                       !.step = "REGISTER_VERIFY",
                                       !.sending = @ \ {email}]
                    ELSE [login EXCEPT !.error = IF connected THEN res.error
                                                ELSE "Connection failed.",
                                       !.sending = @ \ {email}]
        /\ lastOp' = NoOp("sendCodeResolved")
        /\ UNCHANGED <<appVars, guests>>

\* handleVerifyCode up to its await
handleVerifyCode ==
  \E code \in TypedCodes :
    /\ login.session = <<>> /\ login.step = "REGISTER_VERIFY"
    /\ Cardinality(login.verifying) < MaxInFlight
    /\ login' = IF Len(code) < 6
                THEN [login EXCEPT !.verificationCode = code,
                                   !.error = "Please enter the 6-digit code."]
                ELSE [login EXCEPT !.verificationCode = code, !.error = "",
                                   !.verifying = @ \cup {[email |-> login.email, code |-> code,
                                                          token |-> login.securityToken]}]
    /\ lastOp' = NoOp("handleVerifyCode")
    /\ UNCHANGED <<appVars, guests>>

\* handleVerifyCode after its await: the response of verify-code
verifyCodeResolved ==
  \E req \in login.verifying, jwtValid \in BOOLEAN :
    LET res == VerifyCode(req, jwtValid)
    IN  /\ login.session = <<>>
        /\ login' = IF res.statusCode = 200
                    THEN [login EXCEPT !.step = "REGISTER_USERNAME",
                                       !.verifying = @ \ {req}]
                    ELSE [login EXCEPT !.error = res.error, !.verifying = @ \ {req}]
        /\ lastOp' = NoOp("verifyCodeResolved")
        /\ UNCHANGED <<appVars, guests>>

handleCreateUsername ==
  \E username \in Usernames :
    /\ login.session = <<>> /\ login.step = "REGISTER_USERNAME"
    /\ login' =
         IF Len(username) < 3
         THEN [login EXCEPT !.username = username,
                            !.error = "Username must be at least 3 characters."]
         ELSE IF UsernameTaken(login.users, username)
         THEN [login EXCEPT !.username = username, !.error = "Username already taken."]
         ELSE [login EXCEPT !.username = username,
                            !.users = Append(@, [email |-> login.email, username |-> username]),
                            !.loginId = username, !.step = "ROLE_SELECT"]
    /\ lastOp' = NoOp("handleCreateUsername")
    /\ UNCHANGED <<appVars, guests>>

handleLoginIdSubmit ==
  \E loginId \in LoginIds :
    /\ login.session = <<>> /\ login.step = "LOGIN_ID"
    /\ login' =
         IF Trim(loginId) = <<>>
         THEN [login EXCEPT !.loginId = loginId,
                            !.error = "Please enter your username or email."]
         ELSE IF LowerChars(Trim(loginId)) = AdminId
         THEN [login EXCEPT !.loginId = <<"A", "d", "m", "i", "n">>, !.step = "ROLE_SELECT"]
         ELSE IF UserFound(login.users, loginId) = 0
         THEN [login EXCEPT !.loginId = loginId,
                            !.error = "User not found. Please register first."]
         ELSE [login EXCEPT !.loginId = login.users[UserFound(login.users, loginId)].username,
                            !.step = "ROLE_SELECT"]
    /\ lastOp' = NoOp("handleLoginIdSubmit")
    /\ UNCHANGED <<appVars, guests>>

\* onLogin(role, label, loginId)
OnLogin(selected, userId) == <<[role |-> selected.role, label |-> selected.label, userId |-> userId]>>

handleRoleSelect ==
  \E b \in RoleButtons :
    /\ login.session = <<>> /\ login.step = "ROLE_SELECT"
    /\ login' = IF b.role = "TEACHER"
                THEN [login EXCEPT !.selectedRole = <<b>>, !.step = "PASSCODE",
                                   !.passcode = <<>>, !.error = ""]
                ELSE [login EXCEPT !.selectedRole = <<b>>,
                                   !.session = OnLogin(b, login.loginId)]
    /\ lastOp' = NoOp("handleRoleSelect")
    /\ UNCHANGED <<appVars, guests>>

\* the passcode is accepted whatever was typed
PasscodeAcceptedAlways(passcode) == TRUE

\* passcode === '123456'
PasscodeAccepted(passcode) == passcode = AccessCode

verifyPasscode ==
  \E passcode \in Passcodes :
    /\ login.session = <<>> /\ login.step = "PASSCODE"
    /\ login' = IF PasscodeAccepted(passcode)
                THEN IF login.selectedRole # <<>>
                     THEN [login EXCEPT !.passcode = passcode,
                                        !.session = OnLogin(login.selectedRole[1], login.loginId)]
                     ELSE [login EXCEPT !.passcode = passcode]
                ELSE [login EXCEPT !.passcode = passcode, !.error = "Invalid access code"]
    /\ lastOp' = NoOp("verifyPasscode")
    /\ UNCHANGED <<appVars, guests>>

NextLogin ==
  \/ landingButton
  \/ backButton
  \/ roleSelectSignOut
  \/ handleSendCode
  \/ sendCodeResolved
  \/ handleVerifyCode
  \/ verifyCodeResolved
  \/ handleCreateUsername
  \/ handleLoginIdSubmit
  \/ handleRoleSelect
  \/ verifyPasscode

SpecLogin == Init /\ [][NextLogin]_vars

(***************************************************************************)
(* The guest tabs: mount, load and submit, each followed by the persist    *)
(* effect of the tab, which writes the tab's whole state under the         *)
(* teacher's key.                                                          *)
(***************************************************************************)
\* rubrics.find(r => r.id === currentRubricId) || INITIAL_RUBRIC in a tab
TabRubric(data) ==
  IF \E i \in DOMAIN data.rubrics : data.rubrics[i].id = data.currentRubricId
  THEN data.rubrics[FindIndex(data.rubrics, LAMBDA r : r.id = data.currentRubricId)]
  ELSE INITIAL_RUBRIC

\* StudentPeerEval.handleSubmit in a tab: the tab's state after
\* onSaveAssessment
Submitted(data, group, currentUser, evalForms) ==
  LET r == TabRubric(data)
      subjects == Teammates(group.members, currentUser)
      compositeKey == CompositeKey(r.id, group.id)
      existingAssessment == IF compositeKey \in DOMAIN data.assessments
                            THEN data.assessments[compositeKey]
                            ELSE PeerEvalFallback(r, group.id)
  IN  [data EXCEPT !.assessments =
         StoreWith(data.assessments, compositeKey,
           [existingAssessment EXCEPT !.peerEvaluations =
              CleanedEvaluations(existingAssessment.peerEvaluations, currentUser) \o
              [i \in DOMAIN subjects |->
                 [evaluator |-> currentUser, subject |-> subjects[i],
                  score |-> calculateFinalScore(evalForms[i])]]])]

\* the first commit of a tab: the load effect reads the item and queues its
\* state updates, the persist effect of the same commit writes the state of
\* the first render
guestMounts ==
  \E s \in GuestTabs :
    /\ guests.sessions[s].phase = "closed"
    /\ guests' = [guests EXCEPT
                    !.sessions[s] = [@ EXCEPT !.phase = "mounted",
                                              !.loaded = <<guests.storage>>],
                    !.storage = guests.sessions[s].data]
    /\ UNCHANGED <<appVars, lastOp, login>>

\* the commit of the queued updates and its persist effect
guestLoads ==
  \E s \in GuestTabs :
    /\ guests.sessions[s].phase = "mounted"
    /\ LET data == LoadedData(guests.sessions[s].loaded[1])
       IN  guests' = [guests EXCEPT
                        !.sessions[s] = [@ EXCEPT !.phase = "open", !.loaded = <<>>,
                                                  !.data = data],
                        !.storage = data]
    /\ UNCHANGED <<appVars, lastOp, login>>

\* a student identifies as a member of a group and submits the forms
guestSubmits ==
  \E s \in GuestTabs :
    LET data == guests.sessions[s].data
    IN  /\ guests.sessions[s].phase = "open"
        /\ \E g \in DOMAIN data.assignees :
             /\ data.assignees[g].type = "group"
             /\ \E u \in DOMAIN data.assignees[g].members :
                  LET currentUser == data.assignees[g].members[u]
                      subjects == Teammates(data.assignees[g].members, currentUser)
                  IN  \E evalForms \in [DOMAIN subjects -> FormAnswers] :
                        LET saved == Submitted(data, data.assignees[g], currentUser, evalForms)
                        IN  guests' = [guests EXCEPT
                                         !.sessions[s] = [@ EXCEPT !.data = saved,
                                                                   !.currentUser = currentUser],
                                         !.storage = saved]
    /\ UNCHANGED <<appVars, lastOp, login>>

NextGuests ==
  \/ guestMounts
  \/ guestLoads
  \/ guestSubmits

SpecGuests == Init /\ [][NextGuests]_vars

Next ==
  \/ guestMounts
  \/ guestLoads
  \/ guestSubmits
  \/ landingButton
  \/ backButton
  \/ roleSelectSignOut
  \/ handleSendCode
  \/ sendCodeResolved
  \/ handleVerifyCode
  \/ verifyCodeResolved
  \/ handleCreateUsername
  \/ handleLoginIdSubmit
  \/ handleRoleSelect
  \/ verifyPasscode
  \/ handleImportData
  \/ importGradedBackup
  \/ importEmptyBackup
  \/ openSubjectAssignment
  \/ selectType
  \/ setAssignmentWeight
  \/ setPeerEvalWeight
  \/ addCriterion
  \/ removeCriterion
  \/ handleAiGenerate
  \/ handleScore
  \/ handleCustomScore
  \/ handleFeedbackChange
  \/ handleSubmissionChange
  \/ handleAutoGrade
  \/ autoGradeResolved
  \/ autoGradeRejected
  \/ handleSubmit
  \/ setSubject
  \/ handleCreateRubric
  \/ selectRubric
  \/ handleDeleteRubric
  \/ handleDeleteSubject
  \/ processAndAdd
  \/ saveStudent
  \/ createGroup
  \/ editGroup
  \/ removeAssignee
  \/ removeMemberFromGroup

Spec == Init /\ [][Next]_vars

(***************************************************************************)
(* Grading and peer evaluation under changing assignment settings.         *)
(***************************************************************************)
NextPeer ==
  \/ handleImportData
  \/ openSubjectAssignment
  \/ selectType
  \/ setAssignmentWeight
  \/ setPeerEvalWeight
  \/ addCriterion
  \/ handleScore
  \/ handleSubmit

SpecPeer == Init /\ [][NextPeer]_vars

(***************************************************************************)
(* Grading, feedback and auto-grading while the rubric is edited.          *)
(***************************************************************************)
NextEdit ==
  \/ importClassBackup
  \/ addCriterion
  \/ removeCriterion
  \/ handleAiGenerate
  \/ handleCustomScore
  \/ handleFeedbackChange
  \/ handleSubmissionChange
  \/ handleAutoGrade
  \/ autoGradeGenerated
  \/ autoGradeRejected

SpecEdit == Init /\ [][NextEdit]_vars

(***************************************************************************)
(* Grading while assignments are created and deleted.                      *)
(***************************************************************************)
NextCourse ==
  \/ handleImportData
  \/ addCriterion
  \/ handleScore
  \/ setSubject
  \/ handleCreateRubric
  \/ selectRubric
  \/ handleDeleteRubric
  \/ handleDeleteSubject

SpecCourse == Init /\ [][NextCourse]_vars

(***************************************************************************)
(* The list of assignments under creation, deletion and backup restore.    *)
(***************************************************************************)
NextRestore ==
  \/ importClassBackup
  \/ importEmptyBackup
  \/ setSubject
  \/ handleCreateRubric
  \/ selectRubric
  \/ handleDeleteRubric
  \/ handleDeleteSubject

SpecRestore == Init /\ [][NextRestore]_vars

(***************************************************************************)
(* Building a roster by imports and the add-student dialog.                *)
(***************************************************************************)
NextImport ==
  \/ selectType
  \/ processAndAdd
  \/ saveStudent

SpecImport == Init /\ [][NextImport]_vars

(***************************************************************************)
(* The roster screen of the student manager, for both assignment types.    *)
(***************************************************************************)
NextRoster ==
  \/ selectType
  \/ importRowsWithIds
  \/ saveStudent
  \/ createGroup
  \/ editGroup
  \/ removeAssignee
  \/ removeMemberFromGroup

SpecRoster == Init /\ [][NextRoster]_vars

(***************************************************************************)
(* The grading screen with manual scores and auto-grade.                   *)
(***************************************************************************)
NextGrade ==
  \/ importGradedBackup
  \/ handleScore
  \/ handleCustomScore
  \/ handleSubmissionChange
  \/ handleAutoGrade
  \/ autoGradeResolved
  \/ autoGradeRejected

SpecGrade == Init /\ [][NextGrade]_vars

(***************************************************************************)
(* Grading students who are added to and removed from the roster.          *)
(***************************************************************************)
NextRegrade ==
  \/ saveStudent
  \/ removeAssignee
  \/ addCriterion
  \/ handleScore

SpecRegrade == Init /\ [][NextRegrade]_vars

(***************************************************************************)
(* ExportView.downloadCurrentCSV: the text of the file for an individual   *)
(* assignment.                                                             *)
(***************************************************************************)
\* the characters of the titles and feedback texts of the model
Chars(str) ==
  CASE str = "" -> <<>>
    [] str = "fb" -> <<"f", "b">>
    [] str = "essay" -> <<"e", "s", "s", "a", "y">>
    [] str = "New Criterion" -> <<"N", "e", "w", " ", "C", "r", "i", "t", "e", "r", "i", "o", "n">>
    [] str = "Quality" -> <<"Q", "u", "a", "l", "i", "t", "y">>
    [] str = "Depth" -> <<"D", "e", "p", "t", "h">>

\* `${n}` for an integer
IntegerText(n) == IF n < 0 THEN <<"-">> \o Decimal(-n) ELSE Decimal(n)

\* x.toFixed(2)
ToFixed2(x) ==
  IF x.d = 0
  THEN (IF x.n = 0 THEN <<"N", "a", "N">>
        ELSE IF x.n > 0 THEN <<"I", "n", "f", "i", "n", "i", "t", "y">>
        ELSE <<"-", "I", "n", "f", "i", "n", "i", "t", "y">>)
  ELSE (IF Round(RMul(x, I(100))) < 0 THEN <<"-">> ELSE <<>>)
       \o Decimal(Abs(Round(RMul(x, I(100)))) \div 100)
       \o <<".">>
       \o <<DecimalDigit((Abs(Round(RMul(x, I(100)))) \div 10) % 10),
            DecimalDigit(Abs(Round(RMul(x, I(100)))) % 10)>>

\* s.replace(/"/g, '""')
DoubledQuotes(str) ==
  IF str = <<>> THEN <<>>
  ELSE Join(SplitOn(str, "\""), <<"\"", "\"">>)

\* `"${s}"`
Quoted(str) == <<"\"">> \o str \o <<"\"">>

\* the header line of an individual assignment
CsvHeaders(r) ==
  << <<"S", "t", "u", "d", "e", "n", "t", " ", "I", "D">>,
     <<"S", "t", "u", "d", "e", "n", "t", " ", "N", "a", "m", "e">> >>
  \o Map(r.criteria, LAMBDA c : Chars(c.title))
  \o << <<"F", "i", "n", "a", "l", " ", "G", "r", "a", "d", "e", " ", "(">> \o IntegerText(r.assignmentWeight)
          \o <<"%", ")">>,
        <<"S", "t", "a", "t", "u", "s">>,
        <<"F", "e", "e", "d", "b", "a", "c", "k">> >>

\* criteriaScores: the entry's score per criterion, 0 without an entry
CriteriaScores(r, store, aid) ==
  Map(r.criteria,
      LAMBDA c :
        IF CompositeKey(r.id, aid) \in DOMAIN store
             /\ \E k \in DOMAIN store[CompositeKey(r.id, aid)].entries :
                   store[CompositeKey(r.id, aid)].entries[k].criterionId = c.id
        THEN IntegerText(
               store[CompositeKey(r.id, aid)].entries[
                 FindIndex(store[CompositeKey(r.id, aid)].entries,
                           LAMBDA e : e.criterionId = c.id)].score)
        ELSE IntegerText(0))

\* the feedback column
CsvFeedback(r, store, aid) ==
  Quoted(DoubledQuotes(IF CompositeKey(r.id, aid) \in DOMAIN store
                       THEN Chars(store[CompositeKey(r.id, aid)].feedback) ELSE <<>>))

\* the row of an individual
CsvIndividualRow(r, store, a) ==
  Join(<<a.id, Quoted(a.name)>>
         \o CriteriaScores(r, store, a.id)
         \o << ToFixed2(ExportIndividualFinalVal(r, store, a.id)),
               IF ExportPasses(r, ExportIndividualFinalVal(r, store, a.id))
               THEN <<"P", "a", "s", "s">> ELSE <<"F", "a", "i", "l">>,
               CsvFeedback(r, store, a.id) >>,
       <<",">>)

\* [headers.join(','), ...rows].join('\n') for an individual assignment
CurrentCsv(r, store, roster) ==
  Join(<<Join(CsvHeaders(r), <<",">>)>>
         \o Map(SelectSeq(roster, LAMBDA a : r.type # "group" /\ a.type = "individual"),
                LAMBDA a : CsvIndividualRow(r, store, a)),
       <<"\n">>)

(***************************************************************************)
(* Properties.                                                             *)
(***************************************************************************)
RubricById(rid) == rubrics[FindIndex(rubrics, LAMBDA r : r.id = rid)]

\* the teacher percentage rawScore / maxRawScore of the grading screen, 0 for
\* a rubric without points
ScreenTeacherPercentage(r, aid) ==
  IF RubricMaxRawScore(r) = I(0) THEN I(0)
  ELSE RDiv(GraderTeacherRawScore(r, BaseAssessment(r, assessments, aid).entries),
            RubricMaxRawScore(r))

\* the peer average of the grading screen for assignee aid
ScreenPeerAverage(r, aid) ==
  GraderPeerAvg(BaseAssessment(r, assessments, aid).peerEvaluations, EffectivePeerWeight(r))

\* C1: for every assignee the composite of the grading screen is
\* teacherPercentage * (100 - peerEvalWeight) + (peerAverage / 100) * peerEvalWeight,
\* on the 0-100 scale whatever the assignmentWeight, and the screen shows PASS
\* exactly when that composite is at least the passingPercentage.
C1_ScreenComposite ==
  \A aid \in AssigneeIds :
    LET r == CurrentRubric
        w == EffectivePeerWeight(r)
        composite == RAdd(RMul(ScreenTeacherPercentage(r, aid), I(100 - w)),
                          RMul(RDiv(ScreenPeerAverage(r, aid), I(100)), I(w)))
    IN  /\ CurrentAssessment(r, assessments, aid).totalScore = composite
        /\ IsPassed(r, assessments, aid) <=>
             composite.n * 1 >= r.passingPercentage * composite.d

\* C1 witness: weight 30, passing 60, teacher percentage 0.8 and peer average 50
\* give 71, passed, and 35.5 of the 50 course points in the member's export row.
C1_Witness ==
  \E aid \in AssigneeIds :
    LET r == CurrentRubric
    IN  /\ r.type = "group" /\ r.peerEvalWeight = 30
        /\ r.passingPercentage = 60 /\ r.assignmentWeight = 50
        /\ ScreenTeacherPercentage(r, aid) = Num(4, 5)
        /\ ScreenPeerAverage(r, aid) = I(50)
        /\ CurrentAssessment(r, assessments, aid).totalScore = I(71)
        /\ IsPassed(r, assessments, aid)
        /\ ExportGroupFinalVal(r, assessments, aid, MemberB) = Num(71, 2)

\* C2 (as claimed): every stored assessment's totalScore is the composite of its
\* own entries and peerEvaluations under its rubric.
C2_StoredTotalIsComposite ==
  \A key \in DOMAIN assessments :
    assessments[key].totalScore = GraderTotalScore(RubricById(key[1]), assessments[key])

InRange(x, lo, hi) == IsFinite(x) /\ RGe(x, I(lo)) /\ RGe(I(hi), x)

\* C3 (as claimed): the teacher percentage of every assignee lies in [0,1] and
\* every saved totalScore lies in [0,100].
C3_ScoresInRange ==
  /\ \A aid \in AssigneeIds : InRange(ScreenTeacherPercentage(CurrentRubric, aid), 0, 1)
  /\ \A key \in DOMAIN assessments : InRange(assessments[key].totalScore, 0, 100)

\* C4 (as claimed): for a member of a group that has evaluations, the peer
\* average of the grading screen and of the member's export row is the mean of
\* the evaluations whose subject is that member.
C4_PeerAveragePerSubject ==
  \A row \in GroupRows(CurrentRubric, assignees) :
    LET r == CurrentRubric
        own == MemberPeerEvals(r, assessments, row[1], row[2])
    IN  (EffectivePeerWeight(r) > 0 /\ Len(own) > 0) =>
          /\ ScreenPeerAverage(r, row[1]) = MeanScore(own)
          /\ ExportPeerAvgRaw(r, assessments, row[1], row[2]) = MeanScore(own)

\* C5 (as claimed): with an effective peer weight of 0 the peer average is 100
\* on the grading screen, in saveScore, in the auto-grade recompute and in the
\* member rows of the export, whatever evaluations are stored.
C5_ZeroWeightAverageIs100 ==
  \A aid \in AssigneeIds :
    LET r == CurrentRubric
        peerEvals == BaseAssessment(r, assessments, aid).peerEvaluations
    IN  (EffectivePeerWeight(r) = 0 /\ r.peerEvalWeight = 0) =>
          /\ ScreenPeerAverage(r, aid) = I(100)
          /\ SaveScorePeerAvg(peerEvals, 0) = I(100)
          /\ AutoGradePeerAvg(peerEvals, 0) = I(100)
          /\ \A row \in GroupRows(r, assignees) :
               ExportPeerAvgRaw(r, assessments, row[1], row[2]) = I(100)

\* C6 (as claimed): with a peer weight above 0, a member without evaluations
\* has the peer average 0 on the grading screen, in saveScore, in the auto-grade
\* recompute, in the export and in the course summary.
C6_NoEvaluationsAverageIs0 ==
  \A row \in GroupRows(CurrentRubric, assignees) :
    LET r == CurrentRubric
        base == BaseAssessment(r, assessments, row[1])
        w == EffectivePeerWeight(r)
    IN  (w > 0 /\ MemberPeerEvals(r, assessments, row[1], row[2]) = <<>>) =>
          /\ ScreenPeerAverage(r, row[1]) = I(0)
          /\ SaveScorePeerAvg(base.peerEvaluations, w) = I(0)
          /\ AutoGradePeerAvg(base.peerEvaluations, w) = I(0)
          /\ ExportPeerAvgRaw(r, assessments, row[1], row[2]) = I(0)
          /\ SummaryPeerAvgRaw(r, base, ParseMember(row[2]).id) = I(0)

\* C7: when the rubric's maximum raw score is 0 (no criteria, or criteria
\* without levels), the teacher component is 0 whatever the entries are: the
\* totals of the grading screen, of saveScore and of the auto-grade recompute
\* are the peer component alone, the export's teacher percentage is 0, and all
\* of them, like the total a write made under such a rubric has stored, are
\* finite numbers.
C7_ZeroMaxRawScore ==
  /\ \A aid \in AssigneeIds :
       LET r == CurrentRubric
           w == EffectivePeerWeight(r)
           cur == CurrentAssessment(r, assessments, aid)
       IN  RubricMaxRawScore(r) = I(0) =>
             /\ cur.totalScore =
                  PeerComponent(GraderPeerAvg(cur.peerEvaluations, w), w)
             /\ SaveScoreTotal(r, cur.entries, cur.peerEvaluations) =
                  PeerComponent(SaveScorePeerAvg(cur.peerEvaluations, w), w)
             /\ AutoGradeTotal(r, cur.entries, cur.peerEvaluations) =
                  PeerComponent(AutoGradePeerAvg(cur.peerEvaluations, w), w)
             /\ ExportTeacherPct(r, assessments, aid) = I(0)
             /\ IsFinite(cur.totalScore)
             /\ \A row \in GroupRows(r, assignees) :
                  IsFinite(ExportGroupFinalVal(r, assessments, row[1], row[2]))
  /\ (lastOp.op \in {"saveScore", "autoGradeResolved"} /\ lastOp.max = I(0)) =>
       LET a == assessments[lastOp.key]
           w == EffectivePeerWeight(RubricById(lastOp.key[1]))
       IN  a.totalScore = PeerComponent(SaveScorePeerAvg(a.peerEvaluations, w), w)

\* C7 witness: a score of 10 saved for a criterion without levels, under a
\* rubric whose maximum raw score is 0; the stored total is 0.
C7_Witness ==
  /\ lastOp.op = "saveScore" /\ lastOp.max = I(0)
  /\ CurrentRubric.criteria # <<>>
  /\ RubricMaxRawScore(CurrentRubric) = I(0)
  /\ \E i \in DOMAIN assessments[lastOp.key].entries :
       assessments[lastOp.key].entries[i].score = 10
  /\ assessments[lastOp.key].totalScore = I(0)

\* C8 (as claimed): the pass/fail percentage finalVal / totalWeightage * 100 of
\* every row of the export and of the results table is a finite number, 0 when
\* the assignmentWeight is 0.
C8_FinalPctDefined ==
  LET r == CurrentRubric
      Defined(finalVal) ==
        /\ IsFinite(FinalPct(r, finalVal))
        /\ r.assignmentWeight = 0 => FinalPct(r, finalVal) = I(0)
  IN  /\ \A row \in GroupRows(r, assignees) :
           /\ Defined(ExportGroupFinalVal(r, assessments, row[1], row[2]))
           /\ Defined(TableGroupFinalVal(r, assessments, row[1], row[2]))
      /\ \A aid \in IndividualRows(r, assignees) :
           Defined(ExportIndividualFinalVal(r, assessments, aid))

EntryIds(a) == {a.entries[i].criterionId : i \in DOMAIN a.entries}

\* the raw score summed criterion by criterion over the rubric
RawScoreByCriterion(r, entries) ==
  SumR(Map(r.criteria, LAMBDA c :
         RMul(SumR(Map(SelectSeq(entries, LAMBDA e : e.criterionId = c.id),
                       LAMBDA e : I(e.score))),
              c.weight)))

\* C9 (as claimed): the assessment the grading screen derives holds only
\* entries of criteria of the current rubric, its raw score sums only those,
\* and an assessment written by saveScore, handleFeedbackChange or auto-grade
\* holds no entry of a criterion that the rubric no longer has when it is written.
C9_StaleEntriesPruned ==
  /\ [](\A aid \in AssigneeIds :
          LET r == CurrentRubric
              base == BaseAssessment(r, assessments, aid)
          IN  /\ EntryIds(CurrentAssessment(r, assessments, aid)) \subseteq CriteriaIds(r)
              /\ GraderTeacherRawScore(r, base.entries) = RawScoreByCriterion(r, base.entries))
  /\ [][(/\ assessments' # assessments
         /\ lastOp'.op \in {"saveScore", "handleFeedbackChange", "autoGradeResolved"})
        => EntryIds(assessments'[lastOp'.key]) \subseteq CriteriaIds(CurrentRubric')]_vars

\* C10 (as claimed): for an individual rubric the grading screen, the export
\* row and the course summary all give the teacher percentage scaled to the
\* full weight, whatever peerEvalWeight the rubric stores.
C10_IndividualUsesNoPeerWeight ==
  \A aid \in IndividualRows(CurrentRubric, assignees) :
    LET r == CurrentRubric
        tp == ScreenTeacherPercentage(r, aid)
    IN  /\ CurrentAssessment(r, assessments, aid).totalScore = RMul(tp, I(100))
        /\ ExportIndividualFinalVal(r, assessments, aid) = RMul(tp, I(r.assignmentWeight))
        /\ SummaryScore(r, assessments, assignees, aid) = RMul(tp, I(r.assignmentWeight))

EvalsBy(peerEvals, who) == SelectSeq(peerEvals, LAMBDA e : e.evaluator = who)

\* C11: a stored assessment never holds two evaluations with the same
\* evaluator and subject; a submission leaves the evaluations of the other
\* evaluators as they were, in their order, and leaves the evaluator with
\* exactly one evaluation for each teammate and none for themselves.
C11_OneEvaluationPerPair ==
  /\ [](\A key \in DOMAIN assessments :
          LET pe == assessments[key].peerEvaluations
          IN  \A i, j \in DOMAIN pe :
                (pe[i].evaluator = pe[j].evaluator /\ pe[i].subject = pe[j].subject) => i = j)
  /\ [][(lastOp'.op = "handleSubmit" /\ lastOp'.key \in DOMAIN assessments')
        => LET key == lastOp'.key
               old == IF key \in DOMAIN assessments
                      THEN assessments[key].peerEvaluations ELSE <<>>
               new == assessments'[key].peerEvaluations
               group == assignees[FindIndex(assignees, LAMBDA a : a.id = key[2])]
           IN  \E m \in Range(group.members) :
                 /\ \A other \in Range(group.members) \ {m} :
                      EvalsBy(new, other) = EvalsBy(old, other)
                 /\ {e.subject : e \in Range(EvalsBy(new, m))} = Range(group.members) \ {m}
                 /\ Len(EvalsBy(new, m)) = Cardinality(Range(group.members) \ {m})]_vars

\* C11 witness: an evaluator has submitted again; their earlier evaluation was
\* removed and the teammate's evaluation is still stored, before the new one.
C11_Witness ==
  /\ lastOp.op = "handleSubmit" /\ lastOp.pruned
  /\ LET pe == assessments[lastOp.key].peerEvaluations
     IN  /\ Len(pe) = 2
         /\ pe[1].evaluator = MemberB /\ pe[2].evaluator = MemberA
         /\ pe[2].score = 100

\* C12 (as claimed): every stored assessment belongs to a rubric that is still
\* in the rubrics list; deleting an assignment or a subject deletes the grades.
C12_NoGradesOfDeletedRubrics ==
  \A key \in DOMAIN assessments : \E i \in DOMAIN rubrics : rubrics[i].id = key[1]

\* C13 (as claimed): assignee ids are unique across the whole roster, whatever
\* imports, dialogs and removals produced it.
C13_UniqueRosterIds ==
  \A i, j \in DOMAIN assignees : assignees[i].id = assignees[j].id => i = j

\* the lines of an imported text that are data rows of an individual import
RowCols(line) == Map(SplitOn(line, ","), CleanField)

RowId(lines, i) == Col(RowCols(lines[i]), ColMap(lines, "individual").id)

RowName(lines, i) ==
  IF Len(RowCols(lines[i])) = 1 /\ RowId(lines, i) = <<>> THEN RowCols(lines[i])[1]
  ELSE Col(RowCols(lines[i]), ColMap(lines, "individual").name)

\* the numbers of the rows that state a name, in order
NamedRows(lines) ==
  SelectSeq([i \in 1..Len(lines) |-> i],
            LAMBDA i : (i > 1 \/ ~HasHeader(lines)) /\ RowName(lines, i) # <<>>)

\* X-k for the smallest k >= 1 such that X-k is not in use
SmallestFreeSuffix(X, used) ==
  X \o <<"-">> \o
    Decimal(CHOOSE k \in 1..(Cardinality(used) + 1) :
              /\ (X \o <<"-">> \o Decimal(k)) \notin used
              /\ \A n \in 1..(k - 1) : (X \o <<"-">> \o Decimal(n)) \in used)

\* the ids in use when the k-th named row is read
UsedBefore(before, created, k) ==
  {before[i].id : i \in DOMAIN before} \cup {created[j].id : j \in 1..(k - 1)}

GroupRowName(lines, i) ==
  IF ~HasHeader(lines) /\ Len(RowCols(lines[i])) >= 2 THEN RowCols(lines[i])[1]
  ELSE Col(RowCols(lines[i]), ColMap(lines, "group").groupName)

GroupRowKey(lines, i) ==
  IF Col(RowCols(lines[i]), ColMap(lines, "group").groupId) # <<>>
  THEN Col(RowCols(lines[i]), ColMap(lines, "group").groupId)
  ELSE GroupRowName(lines, i)

\* the numbers of the data rows of an import, in order
DataRows(lines) ==
  SelectSeq([i \in 1..Len(lines) |-> i], LAMBDA i : i > 1 \/ ~HasHeader(lines))

IsCustomLine(assignmentType, line) == assignmentType = "group" /\ Includes(line, <<":">>)

\* a row fails when it states no name (individual) or no group name (flat CSV)
RowFails(lines, assignmentType, i) ==
  IF assignmentType = "individual" THEN RowName(lines, i) = <<>>
  ELSE ~IsCustomLine(assignmentType, lines[i]) /\ GroupRowName(lines, i) = <<>>

MissingKind(assignmentType) ==
  IF assignmentType = "individual" THEN "Missing Name" ELSE "Missing Group Name"

\* the number of assignees the valid rows of an import make
ExpectedCreated(lines, assignmentType) ==
  IF assignmentType = "individual"
  THEN Len(SelectSeq(DataRows(lines), LAMBDA i : ~RowFails(lines, assignmentType, i)))
  ELSE Len(SelectSeq(DataRows(lines), LAMBDA i : IsCustomLine(assignmentType, lines[i])))
       + Cardinality({GroupRowKey(lines, i) : i \in
            {j \in Range(DataRows(lines)) :
               ~IsCustomLine(assignmentType, lines[j])
                 /\ ~RowFails(lines, assignmentType, j)}})

\* C15: an import step leaves the previous roster in place and in order and
\* appends the assignees it created; every failing row has given exactly one
\* error, every valid row before or after it has been used, and when no row
\* is valid nothing is created while the errors are still reported.
C15_ImportIsAdditive ==
  /\ [][importFeedback' # importFeedback =>
          /\ importFeedback'.before = assignees
          /\ assignees' = assignees \o importFeedback'.created
          /\ importFeedback'.successCount = Len(importFeedback'.created)]_vars
  /\ []((importFeedback.done /\ ImportLines(importFeedback.text) # <<>>) =>
          /\ SelectSeq(importFeedback.errors,
                       LAMBDA e : e.kind = MissingKind(importFeedback.assignmentType))
               = Map(SelectSeq(DataRows(ImportLines(importFeedback.text)),
                               LAMBDA i : RowFails(ImportLines(importFeedback.text),
                                                   importFeedback.assignmentType, i)),
                     LAMBDA i : ImportError(i, MissingKind(importFeedback.assignmentType),
                                            <<>>))
          /\ Len(importFeedback.created)
               = ExpectedCreated(ImportLines(importFeedback.text),
                                 importFeedback.assignmentType))

\* C15 witness: a row without a name stood between two valid rows; both valid
\* rows were appended to a roster that was not empty, and one error was given.
C15_Witness ==
  /\ importFeedback.done
  /\ importFeedback.text = BlankLineThenBadRow
  /\ Len(importFeedback.before) = 1
  /\ Len(importFeedback.created) = 2
  /\ Len(assignees) = 3
  /\ SubSeq(assignees, 1, 1) = importFeedback.before
  /\ \E k \in DOMAIN importFeedback.errors :
       importFeedback.errors[k].kind = "Missing Name"

\* the 1-indexed position in the raw text of the i-th non-blank line
RawLineNumber(text, i) ==
  CHOOSE n \in DOMAIN SplitLines(text) :
    /\ Trim(SplitLines(text)[n]) # <<>>
    /\ Cardinality({m \in 1..n : Trim(SplitLines(text)[m]) # <<>>}) = i

\* C16 (as claimed): the number in every error and warning of an import is the
\* 1-indexed position of the offending line in the raw text, blank lines
\* counted.
C16_ErrorsNameRawLines ==
  (importFeedback.done /\ ImportLines(importFeedback.text) # <<>>) =>
    /\ SelectSeq(importFeedback.errors,
                 LAMBDA e : e.kind = MissingKind(importFeedback.assignmentType))
         = Map(SelectSeq(DataRows(ImportLines(importFeedback.text)),
                         LAMBDA i : RowFails(ImportLines(importFeedback.text),
                                             importFeedback.assignmentType, i)),
               LAMBDA i : ImportError(RawLineNumber(importFeedback.text, i),
                                      MissingKind(importFeedback.assignmentType), <<>>))
    /\ \A k \in DOMAIN importFeedback.errors :
         importFeedback.errors[k].kind = "Duplicate ID" =>
           \E i \in Range(DataRows(ImportLines(importFeedback.text))) :
             /\ importFeedback.errors[k].line = RawLineNumber(importFeedback.text, i)
             /\ RowId(ImportLines(importFeedback.text), i) \o <<"-">>
                  = SubSeq(importFeedback.errors[k].id, 1,
                           Len(RowId(ImportLines(importFeedback.text), i)) + 1)

\* C17 (as claimed): the CSV export of a roster of individuals, parsed in
\* individual mode against an empty roster, gives the same ids and names in
\* the same order and no errors.
C17_ExportParsesBack ==
  (CurrentRubric.type = "individual"
     /\ \A i \in DOMAIN assignees : assignees[i].type = "individual") =>
    LET res == ProcessAndAdd(CurrentCsv(CurrentRubric, assessments, assignees), <<>>,
                             "individual", nextId)
    IN  /\ res.errors = <<>>
        /\ Len(res.created) = Len(assignees)
        /\ \A k \in DOMAIN res.created :
             /\ res.created[k].id = assignees[k].id
             /\ res.created[k].name = assignees[k].name

\* C18 (as claimed): for every stored assessment whose rubric exists, the
\* teacher percentage of the export equals the teacher percentage of the
\* grading screen: entries of criteria that left the rubric count in neither.
C18_ExportSkipsStaleEntries ==
  \A key \in DOMAIN assessments :
    (\E i \in DOMAIN rubrics : rubrics[i].id = key[1]) =>
      ExportTeacherPct(RubricById(key[1]), assessments, key[2])
        = ScreenTeacherPercentage(RubricById(key[1]), key[2])

\* C19 (as claimed): for every group rubric and every member with an id, the
\* final grade of the member's row in the export of that assignment equals
\* the rubric's score in the member's row of the course summary.
C19_ExportEqualsSummary ==
  \A i \in DOMAIN rubrics, g \in DOMAIN assignees :
    (rubrics[i].type = "group" /\ assignees[g].type = "group") =>
      \A k \in DOMAIN assignees[g].members :
        ParseMember(assignees[g].members[k]).id # <<>> =>
          ExportGroupFinalVal(rubrics[i], assessments, assignees[g].id,
                              assignees[g].members[k])
            = SummaryScore(rubrics[i], assessments, assignees,
                           ParseMember(assignees[g].members[k]).id)

\* C20 (as claimed): grades are lost with the assignee; no stored assessment
\* belongs to an id that is not in the roster, and an assignee that joins the
\* roster has no assessment for any rubric at that moment.
C20_RemovedAssigneeLosesGrades ==
  /\ [](\A key \in DOMAIN assessments : key[2] \in AssigneeIds)
  /\ [][\A i \in DOMAIN assignees' :
          assignees'[i].id \notin AssigneeIds =>
            \A key \in DOMAIN assessments' : key[2] # assignees'[i].id]_vars

\* the rows "Group, Member Name" of a headerless text that name a group
FlatFormatRows(text) ==
  SelectSeq(Map(ImportLines(text), RowCols), LAMBDA r : Len(r) >= 2 /\ r[1] # <<>>)

\* C21 (as claimed): a group-mode import of headerless "Group, Member Name"
\* rows creates one group per distinct group name, whose members are the
\* member names of all its rows in input order, the first row included.
C21_FlatRowsAggregated ==
  (importFeedback.done /\ importFeedback.assignmentType = "group"
     /\ importFeedback.text \in {FlatRowsBlankAndBad, FlatRowsGroupA}) =>
    /\ Len(importFeedback.created)
         = Cardinality({r[1] : r \in Range(FlatFormatRows(importFeedback.text))})
    /\ \A r \in Range(FlatFormatRows(importFeedback.text)) :
         \E k \in DOMAIN importFeedback.created :
           /\ importFeedback.created[k].name = r[1]
           /\ importFeedback.created[k].type = "group"
           /\ importFeedback.created[k].members
                = Map(SelectSeq(FlatFormatRows(importFeedback.text),
                                LAMBDA q : q[1] = r[1] /\ q[2] # <<>>),
                      LAMBDA q : q[2])

\* the groups of the roster that list the student id as a member
GroupsListing(studentId) ==
  {g \in DOMAIN assignees :
     /\ assignees[g].type = "group"
     /\ \E k \in DOMAIN assignees[g].members :
          ParseMember(assignees[g].members[k]).id = studentId}

StoredEntriesOf(store, key, cid) ==
  IF key \in DOMAIN store
  THEN SelectSeq(store[key].entries, LAMBDA e : e.criterionId = cid)
  ELSE <<>>

\* the levels of criterion c that a rating of the result names
ResolvedLevels(c, ratings) ==
  {l \in Range(c.levels) :
     \E k \in DOMAIN ratings :
       /\ ToLowerCase(c.title) = ToLowerCase(ratings[k].criterionTitle)
       /\ ToLowerCase(l.label) = ToLowerCase(ratings[k].levelLabel)}

\* a step that applies an auto-grade result to the store
AutoGradeApplied == pending # <<>> /\ pending' = <<>> /\ assessments' # assessments

\* C23 (as claimed): applying an auto-grade result changes the stored entry of
\* a criterion only if a rating resolves to the criterion and one of its
\* levels, the new entry carrying that level's id and score; the entries of
\* every criterion without a resolving rating are as they were.
C23_AutoGradeFrame ==
  [][AutoGradeApplied =>
       \A c \in Range(pending[1].rubric.criteria) :
         IF ResolvedLevels(c, lastOp'.applied) = {}
         THEN StoredEntriesOf(assessments', pending[1].op.key, c.id)
                = StoredEntriesOf(assessments, pending[1].op.key, c.id)
         ELSE \E l \in ResolvedLevels(c, lastOp'.applied) :
                StoredEntriesOf(assessments', pending[1].op.key, c.id)
                  = <<[criterionId |-> c.id, levelId |-> l.id, score |-> l.score]>>]_vars

\* C24: an assessment holds at most one entry per criterion, and a step that
\* writes a score for a criterion leaves exactly the entry of the latest
\* write; an auto-grade result that rates a criterion twice leaves the entry
\* of its last resolving rating.
C24_OneEntryPerCriterion ==
  /\ [](\A key \in DOMAIN assessments :
          \A i, j \in DOMAIN assessments[key].entries :
            assessments[key].entries[i].criterionId
              = assessments[key].entries[j].criterionId => i = j)
  /\ [][AutoGradeApplied =>
          \A c \in Range(pending[1].rubric.criteria) :
            \A k \in DOMAIN lastOp'.applied :
              (/\ ResolvedLevels(c, <<lastOp'.applied[k]>>) # {}
               /\ \A n \in (k + 1)..Len(lastOp'.applied) :
                    ResolvedLevels(c, <<lastOp'.applied[n]>>) = {})
              => \E l \in ResolvedLevels(c, <<lastOp'.applied[k]>>) :
                   StoredEntriesOf(assessments', pending[1].op.key, c.id)
                     = <<[criterionId |-> c.id, levelId |-> l.id, score |-> l.score]>>]_vars
  /\ [][(lastOp'.op = "saveScore" /\ assessments' # assessments) =>
          \E c \in Range(CurrentRubric.criteria) :
            /\ Len(StoredEntriesOf(assessments', lastOp'.key, c.id)) = 1
            /\ StoredEntriesOf(assessments', lastOp'.key, c.id)[1]
                 = assessments'[lastOp'.key].entries[Len(assessments'[lastOp'.key].entries)]]_vars

\* C24 witness: a result that rated the criterion with "Excellent (10)" and
\* then with "Good (8)" has been applied; the one entry of the criterion is
\* the level of score 8.
C24_Witness ==
  /\ lastOp.op = "autoGradeResolved"
  /\ lastOp.applied = RatesTwice.ratings
  /\ lastOp.key \in DOMAIN assessments
  /\ \E i \in DOMAIN assessments[lastOp.key].entries :
       /\ assessments[lastOp.key].entries[i].score = 8
       /\ assessments[lastOp.key].entries[i].levelId
            = LevelId(assessments[lastOp.key].entries[i].criterionId, 2)

\* a step of the grading screen that writes entries: saveScore or the
\* continuation of handleAutoGrade
GradingWrite ==
  /\ assessments' # assessments
  /\ lastOp'.op \in {"saveScore", "autoGradeResolved"}

\* C25 (as claimed): while a stored assessment is locked, no write of the
\* grading screen (handleScore, handleCustomScore, handleAutoGrade) changes
\* its entries or its totalScore.
C25_LockedNeverGraded ==
  [][GradingWrite =>
       \A key \in DOMAIN assessments :
         assessments[key].locked =>
           /\ key \in DOMAIN assessments'
           /\ assessments'[key].entries = assessments[key].entries
           /\ assessments'[key].totalScore = assessments[key].totalScore]_vars

\* the entries of criterion cid in the assessment the pending request carries
SnapshotEntriesOf(cid) ==
  SelectSeq(pending[1].assessment.entries, LAMBDA e : e.criterionId = cid)

\* C26 (as claimed): a manual score saved while an auto-grade request for the
\* same assessment is pending (the stored entry of the criterion differs from
\* the one the request carries) is still stored after the result is applied,
\* unless a rating of the result resolves to that criterion.
C26_NoLostUpdate ==
  [][AutoGradeApplied =>
       \A c \in Range(pending[1].rubric.criteria) :
         StoredEntriesOf(assessments, pending[1].op.key, c.id) # SnapshotEntriesOf(c.id)
           => \/ StoredEntriesOf(assessments', pending[1].op.key, c.id)
                   = StoredEntriesOf(assessments, pending[1].op.key, c.id)
              \/ ResolvedLevels(c, lastOp'.applied) # {}]_vars

\* the evaluations a handleSubmit step has written under key
WrittenEvaluations(key) ==
  {e \in Range(assessments'[key].peerEvaluations) :
     key \notin DOMAIN assessments \/ e \notin Range(assessments[key].peerEvaluations)}

\* C28: every peer evaluation handleSubmit writes is stored under the key
\* rubricId_groupId of a group of the roster; its evaluator is one member of
\* that group (the same for all evaluations of the step), its subject is a
\* member of the group other than the evaluator, and its score is an integer
\* in 10..100.
C28_PeerEvaluationWellFormed ==
  [][lastOp'.op = "handleSubmit" =>
       \E g \in DOMAIN assignees :
         /\ assignees[g].type = "group"
         /\ lastOp'.key = CompositeKey(CurrentRubric.id, assignees[g].id)
         /\ lastOp'.key \in DOMAIN assessments'
         /\ \A e \in WrittenEvaluations(lastOp'.key) :
              /\ e.evaluator \in Range(assignees[g].members)
              /\ e.subject \in Range(assignees[g].members)
              /\ e.subject # e.evaluator
              /\ e.score \in 10..100
         /\ \A e1, e2 \in WrittenEvaluations(lastOp'.key) : e1.evaluator = e2.evaluator]_vars

\* C28 witness: both members of a group have submitted; the stored evaluations
\* carry the default score 50 and the highest score 100
C28_Witness ==
  /\ lastOp.op = "handleSubmit"
  /\ lastOp.key \in DOMAIN assessments
  /\ \E i, j \in DOMAIN assessments[lastOp.key].peerEvaluations :
       /\ assessments[lastOp.key].peerEvaluations[i].score = 50
       /\ assessments[lastOp.key].peerEvaluations[j].score = 100
       /\ assessments[lastOp.key].peerEvaluations[i].evaluator
            = assessments[lastOp.key].peerEvaluations[j].subject
       /\ assessments[lastOp.key].peerEvaluations[j].evaluator
            = assessments[lastOp.key].peerEvaluations[i].subject

\* a step that removes rubrics and leaves some
RubricsDeleted ==
  /\ rubrics' # <<>>
  /\ {r.id : r \in Range(rubrics')} # {r.id : r \in Range(rubrics)}
  /\ {r.id : r \in Range(rubrics')} \subseteq {r.id : r \in Range(rubrics)}

\* C29 (as claimed): the list of rubrics is never empty, and after a deletion
\* currentRubricId is the id of a rubric of the list.
C29_AssignmentAlwaysExists ==
  /\ [](rubrics # <<>>)
  /\ [][RubricsDeleted => \E i \in DOMAIN rubrics' : rubrics'[i].id = currentRubricId']_vars

\* C30: onLogin is called with role TEACHER only by verifyPasscode in step
\* PASSCODE with the access code typed; PASSCODE is entered only from
\* ROLE_SELECT; ROLE_SELECT is entered from LOGIN_ID with the id 'admin' or
\* the name of a registered user, from REGISTER_USERNAME with a username
\* that was not taken, or back from PASSCODE; REGISTER_USERNAME is entered
\* only when verify-code answers a request whose code and email are those of
\* its token; a wrong passcode leaves step PASSCODE, sets the error and
\* calls no onLogin.
C30_LoginOrdering ==
  /\ [][(login.session = <<>> /\ login'.session # <<>>
          /\ login'.session[1].role = "TEACHER")
        => /\ login.step = "PASSCODE"
           /\ lastOp'.op = "verifyPasscode"
           /\ login'.passcode = AccessCode]_vars
  /\ [][(login'.step = "PASSCODE" /\ login.step # "PASSCODE")
        => login.step = "ROLE_SELECT"]_vars
  /\ [][(login'.step = "ROLE_SELECT" /\ login.step # "ROLE_SELECT")
        => \/ login.step = "PASSCODE"
           \/ /\ login.step = "LOGIN_ID"
              /\ \/ login'.loginId = <<"A", "d", "m", "i", "n">>
                 \/ \E i \in DOMAIN login.users : login.users[i].username = login'.loginId
           \/ /\ login.step = "REGISTER_USERNAME"
              /\ \A i \in DOMAIN login.users :
                   LowerChars(login.users[i].username) # LowerChars(login'.loginId)
              /\ \E i \in DOMAIN login'.users :
                   login'.users[i].username = login'.loginId]_vars
  /\ [][(login'.step = "REGISTER_USERNAME" /\ login.step # "REGISTER_USERNAME")
        => \E req \in login.verifying \ login'.verifying :
             /\ req.token # NoToken
             /\ req.token.email = req.email
             /\ req.token.code = req.code]_vars
  /\ [][(lastOp'.op = "verifyPasscode" /\ login' # login /\ login'.passcode # AccessCode)
        => /\ login'.step = "PASSCODE"
           /\ login'.error = "Invalid access code"
           /\ login'.session = <<>>]_vars

\* C30 witness: a user who registered as "ann" has logged in as teacher after
\* one wrong passcode
C30_Witness ==
  /\ login.session # <<>>
  /\ login.session[1].role = "TEACHER"
  /\ login.session[1].userId = <<"a", "n", "n">>
  /\ login.error = "Invalid access code"
  /\ login.passcode = AccessCode

\* the evaluators whose evaluations the item under the teacher's key holds
StoredEvaluators ==
  {e.evaluator : e \in UNION {Range(guests.storage.assessments[key].peerEvaluations) :
                                key \in DOMAIN guests.storage.assessments}}

\* C27 (as claimed): once two guest tabs have each submitted, for different
\* evaluators, the item under the teacher's key holds evaluations of both.
C27_BothSubmissionsStored ==
  \A s, t \in GuestTabs :
    (/\ guests.sessions[s].currentUser # <<>>
     /\ guests.sessions[t].currentUser # <<>>
     /\ guests.sessions[s].currentUser # guests.sessions[t].currentUser)
    => {guests.sessions[s].currentUser, guests.sessions[t].currentUser}
         \subseteq StoredEvaluators

====
